---- MODULE Spec2Model ----
(***************************************************************************)
(* Model of the bounded evidence crawler of the hotel technology           *)
(* readiness API (src/app.py): crawl_site_signals and the helpers it       *)
(* calls.  One crawl is one coroutine; its suspension points are the       *)
(* awaited GET requests, so every action below is "a reply arrives for the *)
(* awaited request and the coroutine runs on until its next await or its   *)
(* return".                                                                *)
(*                                                                         *)
(* Three specifications share the module.  Spec is the crawl up to the end *)
(* of its `async with` block.  SpecAggregate is the aggregation loop that  *)
(* follows it (lines 568-640) over the cookies of the pages a crawl holds. *)
(* SpecAnalyze is the endpoint analyze: its entry, the return of its crawl, *)
(* detection, the operator-confirmed injections, scoring, the competitor   *)
(* scan, the report and the response, with the stages that may raise.      *)
(***************************************************************************)
EXTENDS Integers, Sequences, FiniteSets, TLC

VARIABLES
    site,          \* what the crawled web site serves (the crawl's input)
    pc,            \* the coroutine's position: the await it is suspended at
    idx,           \* loop index of the awaited request inside its loop
    session,       \* the httpx.AsyncClient of the crawl
    requests,      \* every GET issued on the session, in order, with its reply
    pages,         \* local list `pages`
    errors,        \* local list `errors`
    internal,      \* local list `internal`
    booking_flow,  \* local dict `booking_flow`
    result,        \* the returned signals bundle (empty until the return)
    \* the aggregation loop of crawl_site_signals
    agg_pages,          \* the cookies dict of every PageResult in `pages`
    agg_i,              \* the page the loop `for pr in pages` is at (0: not in the loop)
    cookie_keys_union,  \* local list `cookie_keys_union`
    cookie_keys,        \* the "cookie_keys" entry of the returned bundle
    \* analyze
    req,           \* the AnalyzeRequest: url, confirmed vendors, competitor_url
    failing,       \* the stages that raise while this request is analysed
    rules,         \* the list load_detectors returns (cached for the process)
    apc,           \* analyze's position
    signals,       \* local `signals`: what the awaited crawl returned
    detections,    \* local list `detections`
    by_layer,      \* local dict `by_layer`
    calls,         \* every call of detect_tools_from_signals: arguments and result
    scores,        \* local `scores`
    analysis,      \* the "analysis" object of the response (empty until it is built)
    report_md,     \* the "report_md" string of the response (empty until the return)
    \* two analyses in flight in one process
    tasks,         \* per task: where its crawl stands, its locals, the replies it got, its detections
    \* scoring.py and interpretation.py
    stack_rows,        \* argument `stack_rows`
    integration_rows,  \* argument `integration_rows`
    grades,            \* what compute_grades returned (empty until it is called)
    grades_before,     \* the grades before a row was added to integration_rows
    added_row,         \* the row that was added to integration_rows
    gap_register,      \* the list of gaps, and who made it: build_gap_register or the caller
    recommendations    \* what build_recommendations returned, with the gaps it was given

crawlVars == <<site, pc, idx, session, requests, pages, errors, internal, booking_flow, result>>
aggVars == <<agg_pages, agg_i, cookie_keys_union, cookie_keys>>
anaVars ==
    <<req, failing, rules, apc, signals, detections, by_layer, calls, scores, analysis,
      report_md>>

pairVars == <<tasks>>
gradeVars ==
    <<stack_rows, integration_rows, grades, grades_before, added_row, gap_register,
      recommendations>>

vars == <<crawlVars, aggVars, anaVars, pairVars, gradeVars>>

\* no pair of analyses is in flight
PairIdle == tasks = <<>>

\* nothing is being graded
GradeIdle ==
    /\ stack_rows = <<>>
    /\ integration_rows = <<>>
    /\ grades = <<>>
    /\ grades_before = <<>>
    /\ added_row = <<>>
    /\ gap_register = <<>>
    /\ recommendations = <<>>

\* the aggregation loop has not been entered
AggIdle ==
    /\ agg_pages = <<>>
    /\ agg_i = 0
    /\ cookie_keys_union = <<>>
    /\ cookie_keys = <<>>

\* no request is being analysed
AnaIdle ==
    /\ req = <<>>
    /\ failing = {}
    /\ rules = <<>>
    /\ apc = "idle"
    /\ signals = <<>>
    /\ detections = <<>>
    /\ by_layer = <<>>
    /\ calls = <<>>
    /\ scores = <<>>
    /\ analysis = <<>>
    /\ report_md = <<>>

----------------------------------------------------------------------------
(* Program constants.                                                      *)

MAX_PAGES == 16
MAX_INTERNAL_LINKS == 14
MAX_REDIRECTS == 6
MAX_CANDIDATES == 6
BOOKING_SCAN_PAGES == 5
MAX_CRAWL_ERRORS == 8
MAX_COOKIE_KEYS == 80

(* Bounds of the model.                                                    *)

\* plain internal anchors on the home page of a small site: 0..MaxFewLinks
MaxFewLinks == 2
\* booking elements on the home page: 0..MaxBookingElems
MaxBookingElems == 8
\* redirect hops a booking candidate may go through: 0..MaxHops
MaxHops == 7
\* cookies a page of an ordinary site sets
FewCookies == 6
\* cookies the response of a cookie-heavy site sets, more than MAX_COOKIE_KEYS
ManyCookies == 85

----------------------------------------------------------------------------
(* URLs, hrefs and HTML.  A URL is host + path; an href is the raw         *)
(* attribute value, resolved against a base URL by urljoin.  A page's HTML *)
(* is the sequence of its a / form / iframe elements.                      *)

SiteHost == "hotel.test"
EngineHost == "engine.test"

Url(h, p) == [host |-> h, path |-> p]

Rel(p) == [kind |-> "rel", host |-> "", path |-> p]
Abs(h, p) == [kind |-> "abs", host |-> h, path |-> p]
Frag(p) == [kind |-> "frag", host |-> "", path |-> p]
Mailto(p) == [kind |-> "mailto", host |-> "", path |-> p]

Elem(t, h, kw) == [tag |-> t, href |-> h, text_kw |-> kw]

\* urllib.parse.urljoin on the href shapes above
urljoin(b, h) ==
    CASE h.kind = "abs" -> Url(h.host, h.path)
      [] h.kind = "rel" -> Url(b.host, h.path)
      [] h.kind = "frag" -> Url(b.host, b.path \o h.path)
      [] OTHER -> Url("", h.path)

\* the paths that contain one of _BOOKING_KEYWORDS
KeywordPaths ==
    {"/book-now", "/reserve", "/availability", "/rooms", "/offers", "#rates", "/rates"}
    \cup {"/offers-" \o ToString(i) : i \in 1..(MAX_INTERNAL_LINKS + 2)}
    \cup {"/reserve-" \o ToString(i) : i \in 1..(MAX_INTERNAL_LINKS + 2)}
    \cup {"/rates-" \o ToString(i) : i \in 1..(MaxBookingElems + 2)}

HasKeyword(h) == h.path \in KeywordPaths

root_url == Url(SiteHost, "/")
base == Url(SiteHost, "")

Min(a, b) == IF a <= b THEN a ELSE b
Take(s, n) == SubSeq(s, 1, Min(n, Len(s)))
Range(s) == {s[i] : i \in 1..Len(s)}

----------------------------------------------------------------------------
(* The crawled site: the input of a crawl.  n plain internal anchors and   *)
(* `book` booking elements on the home page; parser_ok tells whether       *)
(* BeautifulSoup(html, "lxml") works in this deployment (it raises when    *)
(* the parser is unavailable).                                             *)

Html(es) == [nonempty |-> TRUE, elems |-> es]
NoHtml == [nonempty |-> FALSE, elems |-> <<>>]

PagePath(i) == "/p" \o ToString(i)

\* the i-th booking element of a home page
BookingElem(i) ==
    CASE i = 1 -> Elem("a", Rel("/book-now"), TRUE)
      [] i = 2 -> Elem("a", Abs(SiteHost, "/book-now"), FALSE)
      [] i = 3 -> Elem("iframe", Abs(EngineHost, "/reserve"), FALSE)
      [] i = 4 -> Elem("form", Abs(EngineHost, "/availability"), FALSE)
      [] i = 5 -> Elem("a", Rel("/rooms"), FALSE)
      [] i = 6 -> Elem("a", Rel("/offers"), TRUE)
      [] i = 7 -> Elem("a", Frag("#rates"), FALSE)
      [] OTHER -> Elem("a", Abs(EngineHost, "/rates-" \o ToString(i)), FALSE)

\* elements that are neither links nor candidates, a repeated anchor and a link
\* to a well-known path
Furniture ==
    << Elem("a", Frag("#top"), FALSE),
       Elem("a", Mailto("mailto:desk"), FALSE),
       Elem("a", Abs(EngineHost, "/about"), FALSE),
       Elem("form", Rel("/search"), TRUE),
       Elem("a", Abs(SiteHost, PagePath(1)), FALSE),
       Elem("a", Rel("/robots.txt"), FALSE) >>

HomeHtml(s) ==
    Html([i \in 1..s.book |-> BookingElem(i)]
         \o [i \in 1..s.n |-> Elem("a", Rel(PagePath(i)), FALSE)]
         \o Furniture)

\* what an inner page of the site serves: /robots.txt is text/plain (kept as
\* html, no element in it), /sitemap.xml is a download whose content type
\* _safe_get does not keep (html = "")
InnerHtml(path) ==
    IF path = "/robots.txt" THEN Html(<<>>)
      ELSE IF path = "/sitemap.xml" THEN NoHtml
      ELSE IF \E i \in 1..(MAX_INTERNAL_LINKS + 2) : PagePath(i) = path
        THEN LET i == CHOOSE j \in 1..(MAX_INTERNAL_LINKS + 2) : PagePath(j) = path
             IN Html(<< Elem("a", Rel("/"), FALSE),
                        Elem("a", Rel("/book-now"), TRUE),
                        Elem("iframe", Abs(EngineHost, "/offers-" \o ToString(i)), FALSE),
                        Elem("form", Abs(EngineHost, "/reserve-" \o ToString(i)), FALSE) >>)
        ELSE Html(<< Elem("form", Abs(EngineHost, "/availability"), FALSE) >>)

\* the body _safe_get keeps for a response (an error page carries no element)
Body(s, url, status) ==
    IF status >= 400 THEN Html(<<>>)
    ELSE IF url = root_url THEN HomeHtml(s)
    ELSE InnerHtml(url.path)

BigSite == [n |-> MAX_INTERNAL_LINKS + 1, book |-> 1, parser_ok |-> TRUE]

Sites ==
    {[n |-> n, book |-> b, parser_ok |-> p] :
        n \in 0..MaxFewLinks, b \in 0..MaxBookingElems, p \in BOOLEAN}
    \cup {BigSite}

----------------------------------------------------------------------------
(* Page parser.                                                            *)

SelectTag(html, t) == SelectSeq(html.elems, LAMBDA e : e.tag = t)

\* _good, the href filter of _internal_links_from_soup
Good(h) == h.kind \notin {"empty", "frag", "mailto", "tel", "js"}

RECURSIVE InternalLinksLoop(_, _, _, _, _)
InternalLinksLoop(base_url, anchors, i, links, limit) ==
    IF i > Len(anchors) THEN links
    ELSE LET href == anchors[i].href
             abs_u == urljoin(base_url, href)
         IN IF ~Good(href) \/ abs_u.host # base_url.host
              THEN InternalLinksLoop(base_url, anchors, i + 1, links, limit)
              ELSE LET links2 == IF abs_u \in Range(links) THEN links
                                 ELSE Append(links, abs_u)
                   IN IF Len(links2) >= limit THEN links2
                      ELSE InternalLinksLoop(base_url, anchors, i + 1, links2, limit)

\* mutant: a link that was already collected is collected again
RECURSIVE InternalLinksLoop_NoDedupe(_, _, _, _, _)
InternalLinksLoop_NoDedupe(base_url, anchors, i, links, limit) ==
    IF i > Len(anchors) THEN links
    ELSE LET href == anchors[i].href
             abs_u == urljoin(base_url, href)
         IN IF ~Good(href) \/ abs_u.host # base_url.host
              THEN InternalLinksLoop_NoDedupe(base_url, anchors, i + 1, links, limit)
              ELSE IF Len(links) + 1 >= limit THEN Append(links, abs_u)
              ELSE InternalLinksLoop_NoDedupe(base_url, anchors, i + 1, Append(links, abs_u), limit)

internal_links_NoDedupe(base_url, html, limit) ==
    InternalLinksLoop_NoDedupe(base_url, SelectTag(html, "a"), 1, <<>>, limit)

\* mutant: the limit is not applied
internal_links_NoLimit(base_url, html, limit) ==
    InternalLinksLoop(base_url, SelectTag(html, "a"), 1, <<>>, Len(html.elems) + 1)

internal_links_from_soup(base_url, html, limit) ==
    InternalLinksLoop(base_url, SelectTag(html, "a"), 1, <<>>, limit)

RECURSIVE DedupeLoop(_, _, _)
DedupeLoop(cs, i, out) ==
    IF i > Len(cs) THEN out
    ELSE DedupeLoop(cs, i + 1, IF cs[i] \in Range(out) THEN out ELSE Append(out, cs[i]))

\* the candidates of one page, before the dedupe
RawCandidates(base_url, html) ==
    LET as == SelectSeq(SelectTag(html, "a"),
                        LAMBDA e : e.href.kind # "empty" /\ (e.text_kw \/ HasKeyword(e.href)))
        fs == SelectSeq(SelectTag(html, "form"),
                        LAMBDA e : e.href.kind # "empty" /\ HasKeyword(e.href))
        is == SelectSeq(SelectTag(html, "iframe"),
                        LAMBDA e : e.href.kind # "empty" /\ HasKeyword(e.href))
        all == as \o fs \o is
    IN [k \in 1..Len(all) |-> urljoin(base_url, all[k].href)]

find_booking_candidates(base_url, html) ==
    Take(DedupeLoop(RawCandidates(base_url, html), 1, <<>>), MAX_CANDIDATES)

----------------------------------------------------------------------------
(* HTTP fetcher.  A reply is what the network does with one GET: a         *)
(* response with a status (after `hops` redirects), or one of the three    *)
(* exception classes _safe_get tells apart.                                *)

Resp(st, h) == [kind |-> "response", status |-> st, hops |-> h]
Fail(k) == [kind |-> k, status |-> 0, hops |-> 0]

FailKinds == {"timeout", "request_error", "unexpected_error"}

\* the way a URL fails when it fails (a bound on the replies: every exception
\* class of _safe_get occurs, one per URL)
FailKindOf(url) ==
    CASE url.path = "/robots.txt" -> "request_error"
      [] url.path = "/sitemap.xml" -> "timeout"
      [] OTHER -> "unexpected_error"

HomeReplies == {Resp(200, 0), Resp(404, 0), Resp(503, 0)} \cup {Fail(k) : k \in FailKinds}

\* replies of the later fetches: on the big site a fetch is answered 200 or
\* fails; on the small sites a well-known path may also be missing (404) and
\* the booking candidate may redirect
WellKnownReplies(s, url) ==
    {Resp(200, 0), Fail(FailKindOf(url))} \cup (IF s = BigSite THEN {} ELSE {Resp(404, 0)})

LinkReplies(s, url) == {Resp(200, 0), Fail(FailKindOf(url))}

BookingReplies(s) ==
    {Resp(200, 0), Fail("timeout")}
    \cup (IF s = BigSite THEN {} ELSE {Resp(200, h) : h \in 1..MaxHops})

PageResult(url, reply) == [url |-> url, status_code |-> reply.status]

\* the html field of a PageResult (kept out of the state: it is a function
\* of the site, the URL and the status)
HtmlOf(p) == Body(site, p.url, p.status_code)

\* _safe_get: (PageResult, None) or (None, error); an absent value is <<>>
safe_get(url, reply) ==
    IF reply.kind = "response"
      THEN [page |-> <<PageResult(url, reply)>>, err |-> <<>>]
      ELSE [page |-> <<>>, err |-> <<[type |-> reply.kind, url |-> url]>>]

----------------------------------------------------------------------------
(* Crawl orchestrator: crawl_site_signals.  L is the record of the         *)
(* coroutine's locals; a configuration is where the coroutine stops next:  *)
(* at an await (a request is issued) or at its return.                     *)

Locals(pgs, errs, intl, bf) ==
    [pages |-> pgs, errors |-> errs, internal |-> intl, booking_flow |-> bf]

NewBookingFlow ==
    [candidates |-> <<>>, final_url |-> <<>>, final_domain |-> <<>>, evidence |-> <<>>]

Note(t, v, n) == [type |-> t, value |-> v, note |-> n]

AwaitConf(phase, i, url, L) ==
    [pc |-> phase, idx |-> i, issue |-> <<url>>, L |-> L, result |-> <<>>, session |-> "open"]

\* leaving the `async with` block closes the client
ReturnConf(L, res) ==
    [pc |-> "done", idx |-> 0, issue |-> <<>>, L |-> L, result |-> <<res>>, session |-> "closed"]

\* the early return on a failed home page
EarlyBundle(err) ==
    [keys |-> {"root_url", "base", "pages", "errors", "booking_flow", "evidence"},
     pages |-> <<>>, errors |-> err, booking_flow |-> <<>>,
     evidence |-> [pages_fetched |-> <<>>, booking_flow |-> <<>>, crawl_errors |-> <<>>]]

\* the aggregation and the final return
Aggregate(L) ==
    [keys |-> {"root_url", "base", "pages", "asset_urls", "asset_domains", "headers",
               "cookie_keys", "booking_flow", "jsonld", "blob", "evidence"},
     pages |-> L.pages, errors |-> <<>>, booking_flow |-> <<L.booking_flow>>,
     evidence |-> [pages_fetched |-> Take(L.pages, MAX_PAGES),
                   booking_flow |-> <<L.booking_flow>>,
                   crawl_errors |-> Take(L.errors, MAX_CRAWL_ERRORS)]]

\* mutant: the ceiling test is off by one
BudgetReached_OffByOne(pgs) == Len(pgs) > MAX_PAGES

\* lines 493 and 509
BudgetReached(pgs) == Len(pgs) >= MAX_PAGES

\* mutant: a candidate already in the list is appended again
RECURSIVE MergeExtra_NoDedupe(_, _, _)
MergeExtra_NoDedupe(cands, extra, j) ==
    IF j > Len(extra) THEN cands
    ELSE LET c2 == Append(cands, extra[j])
         IN IF Len(c2) >= MAX_CANDIDATES THEN c2 ELSE MergeExtra_NoDedupe(c2, extra, j + 1)

\* lines 531-535: merge one page's candidates
RECURSIVE MergeExtra(_, _, _)
MergeExtra(cands, extra, j) ==
    IF j > Len(extra) THEN cands
    ELSE LET c2 == IF extra[j] \in Range(cands) THEN cands ELSE Append(cands, extra[j])
         IN IF Len(c2) >= MAX_CANDIDATES THEN c2 ELSE MergeExtra(c2, extra, j + 1)

\* lines 524-535: scan the first pages for more candidates
RECURSIVE MergePages(_, _, _)
MergePages(cands, pgs, i) ==
    IF i > Len(pgs) \/ Len(cands) >= MAX_CANDIDATES THEN cands
    ELSE IF ~HtmlOf(pgs[i]).nonempty THEN MergePages(cands, pgs, i + 1)
    ELSE MergePages(MergeExtra(cands, find_booking_candidates(pgs[i].url, HtmlOf(pgs[i])), 1),
                    pgs, i + 1)

\* lines 520-535
DiscoverCandidates(pgs) ==
    MergePages(find_booking_candidates(root_url, HtmlOf(pgs[1])),
               Take(pgs, BOOKING_SCAN_PAGES), 1)

\* mutant: the last candidate is followed
PickCandidate_Last(cands) == cands[Len(cands)]

\* the candidate that is followed
PickCandidate(cands) == cands[1]

\* line 566: the parser raised during discovery
DiscoveryFailed(L) ==
    ReturnConf([L EXCEPT !.booking_flow =
                   [NewBookingFlow EXCEPT !.evidence =
                       <<Note("booking_flow_error", <<>>, "Booking discovery failed.")>>]],
               Aggregate([L EXCEPT !.booking_flow =
                   [NewBookingFlow EXCEPT !.evidence =
                       <<Note("booking_flow_error", <<>>, "Booking discovery failed.")>>]]))

\* step 4, up to the await of the candidate or the return
RunBooking(L) ==
    IF ~site.parser_ok THEN DiscoveryFailed(L)
    ELSE LET cands == DiscoverCandidates(L.pages)
             L2 == [L EXCEPT !.booking_flow = [NewBookingFlow EXCEPT !.candidates = cands]]
         IN IF cands # <<>>
              THEN AwaitConf("booking", 1, PickCandidate(cands), L2)
              ELSE ReturnConf(L2, Aggregate(L2))

\* mutant: the loop over the internal links never tests the page budget
RunLinks_NoBudgetCheck(L, i) ==
    IF i <= Len(L.internal)
      THEN AwaitConf("links", i, L.internal[i], L)
      ELSE RunBooking(L)

\* step 3, from iteration i of the loop over `internal`
RunLinks(L, i) ==
    IF i <= Len(L.internal) /\ ~BudgetReached(L.pages)
      THEN AwaitConf("links", i, L.internal[i], L)
      ELSE RunBooking(L)

\* lines 502-506
ComputeInternal(home) ==
    IF site.parser_ok
      THEN internal_links_from_soup(root_url, HtmlOf(home), MAX_INTERNAL_LINKS)
      ELSE <<>>

\* mutant: the two well-known paths are fetched in the other order
WellKnown_Swapped == << urljoin(base, Rel("/sitemap.xml")), urljoin(base, Rel("/robots.txt")) >>

\* line 492
WellKnown == << urljoin(base, Rel("/robots.txt")), urljoin(base, Rel("/sitemap.xml")) >>

\* step 2, from iteration i of the loop over the well-known paths
RunWellKnown(L, i) ==
    IF i <= Len(WellKnown) /\ ~BudgetReached(L.pages)
      THEN AwaitConf("wellknown", i, WellKnown[i], L)
      ELSE RunLinks([L EXCEPT !.internal = ComputeInternal(L.pages[1])], 1)

\* mutant: a failed best-effort fetch is swallowed without a record
Absorb_SwallowError(L, r) ==
    IF r.err # <<>> THEN L
    ELSE IF r.page # <<>> THEN [L EXCEPT !.pages = Append(L.pages, r.page[1])]
    ELSE L

\* lines 496-499 and 512-515: a best-effort fetch's result
Absorb(L, r) ==
    IF r.err # <<>> THEN [L EXCEPT !.errors = Append(L.errors, r.err[1])]
    ELSE IF r.page # <<>> THEN [L EXCEPT !.pages = Append(L.pages, r.page[1])]
    ELSE L

\* mutant: the early return leaves the client open
AfterHome_NoClose(L, r) ==
    IF r.err # <<>> \/ r.page = <<>>
      THEN [ReturnConf(L, EarlyBundle(r.err)) EXCEPT !.session = "open"]
      ELSE RunWellKnown([L EXCEPT !.pages = Append(L.pages, r.page[1])], 1)

\* lines 486-489
AfterHome(L, r) ==
    IF r.err # <<>> \/ r.page = <<>>
      THEN ReturnConf(L, EarlyBundle(r.err))
      ELSE RunWellKnown([L EXCEPT !.pages = Append(L.pages, r.page[1])], 1)

\* what a followed candidate redirects through: r.history and r.url
RedirectHost == "Live.Engine.test"

History(cand, h) ==
    [k \in 1..h |-> IF k = 1 THEN cand ELSE Url("go.test", "/hop-" \o ToString(k - 1))]

FinalUrl(cand, h) == IF h = 0 THEN cand ELSE Url(RedirectHost, "/abc")

\* str.lower on the host names of the model
Lower(h) == IF h = RedirectHost THEN "live.engine.test" ELSE h

\* mutant: the whole redirect history is recorded, however long
BookingFollowed_NoCap(bf, candidate, reply) ==
    LET final == FinalUrl(candidate, reply.hops)
        chain == History(candidate, reply.hops)
    IN [bf EXCEPT
          !.final_url = <<final>>,
          !.final_domain = <<Lower(final.host)>>,
          !.evidence = bf.evidence
              \o (IF chain # <<>> THEN <<Note("redirect_chain", chain, "")>> ELSE <<>>)
              \o << Note("booking_candidate", <<candidate>>, ""),
                    Note("booking_final_url", <<final>>, "") >>]

\* lines 541-554: the candidate was followed (the cookie keys of the reply,
\* lines 556-561, are not part of the model)
BookingFollowed(bf, candidate, reply) ==
    LET final == FinalUrl(candidate, reply.hops)
        chain == History(candidate, reply.hops)
    IN [bf EXCEPT
          !.final_url = <<final>>,
          !.final_domain = <<Lower(final.host)>>,
          !.evidence = bf.evidence
              \o (IF chain # <<>>
                    THEN <<Note("redirect_chain", Take(chain, MAX_REDIRECTS), "")>>
                    ELSE <<>>)
              \o << Note("booking_candidate", <<candidate>>, ""),
                    Note("booking_final_url", <<final>>, "") >>]

\* mutant: the failure to follow the candidate leaves no note
BookingFailed_Silent(bf) == bf

\* lines 563-564: client.get raised
BookingFailed(bf) ==
    [bf EXCEPT !.evidence =
        Append(bf.evidence, Note("booking_flow_error", <<>>, "Could not follow booking candidate."))]

\* lines 540-566, then the aggregation and the return
AfterBooking(L, candidate, reply) ==
    LET bf == IF reply.kind = "response"
                THEN BookingFollowed(L.booking_flow, candidate, reply)
                ELSE BookingFailed(L.booking_flow)
        L2 == [L EXCEPT !.booking_flow = bf]
    IN ReturnConf(L2, Aggregate(L2))

----------------------------------------------------------------------------
(* The state machine.                                                      *)

Request(url, phase) ==
    [url |-> url, phase |-> phase, outcome |-> "pending", status |-> 0, hops |-> 0]

\* the request the coroutine is suspended on
Awaited == requests[Len(requests)]

Replied(reqs, reply) ==
    [reqs EXCEPT ![Len(reqs)] =
        [@ EXCEPT !.outcome = reply.kind, !.status = reply.status, !.hops = reply.hops]]

CurLocals == Locals(pages, errors, internal, booking_flow)

Awaiting == {"home", "wellknown", "links", "booking"}

\* the reply is consumed and the coroutine runs to configuration c
Resume(c, reply) ==
    /\ pc' = c.pc
    /\ idx' = c.idx
    /\ session' = c.session
    /\ requests' = IF c.issue # <<>>
                     THEN Append(Replied(requests, reply), Request(c.issue[1], c.pc))
                     ELSE Replied(requests, reply)
    /\ pages' = c.L.pages
    /\ errors' = c.L.errors
    /\ internal' = c.L.internal
    /\ booking_flow' = c.L.booking_flow
    /\ result' = c.result
    /\ UNCHANGED <<site, aggVars, anaVars, pairVars, gradeVars>>

Init ==
    /\ site \in Sites
    /\ pc = "init"
    /\ idx = 0
    /\ session = "none"
    /\ requests = <<>>
    /\ pages = <<>>
    /\ errors = <<>>
    /\ internal = <<>>
    /\ booking_flow = NewBookingFlow
    /\ result = <<>>
    /\ AggIdle
    /\ AnaIdle
    /\ PairIdle
    /\ GradeIdle

\* lines 472-486: the client is opened and the home page requested
StartCrawl ==
    /\ pc = "init"
    /\ pc' = "home"
    /\ idx' = 1
    /\ session' = "open"
    /\ requests' = <<Request(root_url, "home")>>
    /\ UNCHANGED <<site, pages, errors, internal, booking_flow, result, aggVars, anaVars, pairVars, gradeVars>>

HomeReply ==
    /\ pc = "home"
    /\ \E reply \in HomeReplies :
          Resume(AfterHome(CurLocals, safe_get(Awaited.url, reply)), reply)

WellKnownReply ==
    /\ pc = "wellknown"
    /\ \E reply \in WellKnownReplies(site, Awaited.url) :
          Resume(RunWellKnown(Absorb(CurLocals, safe_get(Awaited.url, reply)), idx + 1), reply)

LinkReply ==
    /\ pc = "links"
    /\ \E reply \in LinkReplies(site, Awaited.url) :
          Resume(RunLinks(Absorb(CurLocals, safe_get(Awaited.url, reply)), idx + 1), reply)

BookingReply ==
    /\ pc = "booking"
    /\ \E reply \in BookingReplies(site) :
          Resume(AfterBooking(CurLocals, Awaited.url, reply), reply)

\* the task is cancelled at an await: CancelledError is no Exception, so no
\* handler of the crawl catches it; the `async with` block still closes the client
Cancel ==
    /\ pc \in Awaiting
    /\ pc' = "cancelled"
    /\ session' = "closed"
    /\ requests' = [requests EXCEPT ![Len(requests)] = [@ EXCEPT !.outcome = "cancelled"]]
    /\ UNCHANGED <<site, idx, pages, errors, internal, booking_flow, result, aggVars, anaVars, pairVars, gradeVars>>

Next ==
    \/ StartCrawl
    \/ HomeReply
    \/ WellKnownReply
    \/ LinkReply
    \/ BookingReply
    \/ Cancel

Spec == Init /\ [][Next]_vars

TypeOK ==
    /\ site \in Sites
    /\ pc \in {"init", "done", "cancelled"} \cup Awaiting
    /\ session \in {"none", "open", "closed"}
    /\ Len(result) <= 1

----------------------------------------------------------------------------
(* The aggregation loop of crawl_site_signals (lines 568-640), cookie keys *)
(* only.  Its input is the list `pages` the crawl holds when it leaves the *)
(* `async with` block: between 1 and MAX_PAGES pages, each with the        *)
(* cookies dict _safe_get kept of its response.                            *)

\* the crawl variables while another specification runs
CrawlIdle ==
    /\ site = BigSite
    /\ pc = "init"
    /\ idx = 0
    /\ session = "none"
    /\ requests = <<>>
    /\ pages = <<>>
    /\ errors = <<>>
    /\ internal = <<>>
    /\ booking_flow = NewBookingFlow
    /\ result = <<>>

SharedCookie == "session"

\* the cookie names the response for page i sets: n names of its own, after
\* the site-wide session cookie when the site has one
ServedCookies(i, n, shared) ==
    (IF shared THEN <<SharedCookie>> ELSE <<>>)
    \o [j \in 1..n |-> "c" \o ToString(i) \o "_" \o ToString(j)]

\* lines 428-433: the cookies dict of a PageResult, cut at MAX_COOKIE_KEYS
RECURSIVE PageCookies(_, _, _)
PageCookies(served, j, cookies) ==
    IF j > Len(served) \/ Len(cookies) >= MAX_COOKIE_KEYS THEN cookies
    ELSE PageCookies(served, j + 1,
                     IF served[j] \in Range(cookies) THEN cookies ELSE Append(cookies, served[j]))

\* the pages of a crawl of a site whose responses set n cookies each
CookiePages(np, n, shared) ==
    [i \in 1..np |-> PageCookies(ServedCookies(i, n, shared), 1, <<>>)]

CookieCounts == {0, 1, FewCookies, ManyCookies}

\* lines 580-585: one page's keys are merged; the break leaves this loop only
RECURSIVE UnionKeys(_, _, _)
UnionKeys(union, keys, j) ==
    IF j > Len(keys) THEN union
    ELSE IF keys[j] \in Range(union) THEN UnionKeys(union, keys, j + 1)
    ELSE LET u2 == Append(union, keys[j])
         IN IF Len(u2) >= MAX_COOKIE_KEYS THEN u2 ELSE UnionKeys(u2, keys, j + 1)

\* mutant: the bundle returns the list as the loop left it
ReturnedCookieKeys_NoSlice(union) == union

\* lines 617 and 635: cookie_keys_union[:MAX_COOKIE_KEYS]
ReturnedCookieKeys(union) == Take(union, MAX_COOKIE_KEYS)

AggInit ==
    /\ CrawlIdle
    /\ AnaIdle
    /\ PairIdle
    /\ GradeIdle
    /\ \E np \in 1..MAX_PAGES, n \in CookieCounts, shared \in BOOLEAN :
          agg_pages = CookiePages(np, n, shared)
    /\ agg_i = 1
    /\ cookie_keys_union = <<>>
    /\ cookie_keys = <<>>

\* lines 576-585: one iteration of `for pr in pages`
UnionPage ==
    /\ agg_i \in 1..Len(agg_pages)
    /\ cookie_keys_union' =
          IF agg_pages[agg_i] # <<>>
            THEN UnionKeys(cookie_keys_union, agg_pages[agg_i], 1)
            ELSE cookie_keys_union
    /\ agg_i' = agg_i + 1
    /\ UNCHANGED <<agg_pages, cookie_keys, crawlVars, anaVars, pairVars, gradeVars>>

\* lines 614-640: the loop is over, the bundle is returned
ReturnBundle ==
    /\ agg_i = Len(agg_pages) + 1
    /\ cookie_keys = <<>>
    /\ cookie_keys' = <<ReturnedCookieKeys(cookie_keys_union)>>
    /\ agg_i' = 0
    /\ UNCHANGED <<agg_pages, cookie_keys_union, crawlVars, anaVars, pairVars, gradeVars>>

AggNext ==
    \/ UnionPage
    \/ ReturnBundle

SpecAggregate == AggInit /\ [][AggNext]_vars

----------------------------------------------------------------------------
(* Vendor detector: detect_tools_from_signals and its helpers.             *)
(*                                                                         *)
(* A text is a sequence of tokens and `x in y` on strings is "x is a       *)
(* contiguous part of y".  A number (weight, confidence) is held in        *)
(* thousandths: 850 is 0.85.  An optional value is <<>> (None, absent) or  *)
(* <<v>>.                                                                  *)

CANONICAL_LAYER_ORDER ==
    << "Distribution", "Core Systems", "Guest Data & CRM", "Commercial Execution",
       "In-Venue Experience", "Operations", "Finance & Reporting" >>

Layers == Range(CANONICAL_LAYER_ORDER)

CATEGORY_TO_LAYER ==
    [c \in {"distribution", "crs", "channel_manager", "channel manager", "ota",
            "metasearch", "booking engine", "booking_engine", "ibe"} |-> "Distribution"]
    @@ [c \in {"pms", "rms", "property management", "revenue management",
               "core systems"} |-> "Core Systems"]
    @@ [c \in {"crm", "email", "marketing automation", "guest data", "loyalty",
               "cdp"} |-> "Guest Data & CRM"]
    @@ [c \in {"tracking", "analytics", "attribution", "tag manager", "advertising",
               "commercial execution"} |-> "Commercial Execution"]
    @@ [c \in {"in-venue", "in venue", "guest messaging", "digital check-in", "upsell",
               "wifi", "keys"} |-> "In-Venue Experience"]
    @@ [c \in {"operations", "housekeeping", "maintenance", "task management",
               "workforce"} |-> "Operations"]
    @@ [c \in {"finance", "accounting", "bi", "reporting", "dashboard",
               "finance & reporting"} |-> "Finance & Reporting"]

\* `x or default` on an optional string
Or(opt, default) == IF opt = <<>> \/ opt = <<"">> THEN default ELSE opt[1]

\* truthiness of an optional string
Truthy(opt) == opt # <<>> /\ opt # <<"">>

Max(a, b) == IF a >= b THEN a ELSE b

\* str.lower on the tokens of the model
LowerTok(t) ==
    CASE t = "Duetto" -> "duetto"
      [] t = "_GA" -> "_ga"
      [] t = "Pricing" -> "pricing"
      [] t = "Cloud" -> "cloud"
      [] t = "Welcome" -> "welcome"
      [] t = "PHPSESSID" -> "phpsessid"
      [] OTHER -> t

LowerText(x) == [i \in 1..Len(x) |-> LowerTok(x[i])]

\* x in y, on texts
In(x, y) == \E i \in 1..(Len(y) - Len(x) + 1) : SubSeq(y, i, i + Len(x) - 1) = x

\* category.strip().lower() on the categories of the model
StripLower(c) ==
    CASE c = "PMS " -> "pms"
      [] c = "  " -> ""
      [] c = "Unknown" -> "unknown"
      [] c = "Distribution" -> "distribution"
      [] c = "Core Systems" -> "core systems"
      [] c = "Guest Data & CRM" -> "guest data & crm"
      [] c = "Commercial Execution" -> "commercial execution"
      [] c = "In-Venue Experience" -> "in-venue experience"
      [] c = "Operations" -> "operations"
      [] c = "Finance & Reporting" -> "finance & reporting"
      [] OTHER -> c

\* mutant: the unrounded confidence must exceed the threshold
label_Strict(conf) ==
    IF conf > 850 THEN "confirmed"
    ELSE IF conf > 550 THEN "probable"
    ELSE IF conf > 0 THEN "possible"
    ELSE "unknown"

\* mutant: "confirmed" needs a confidence above 0.9
label_ConfirmedAbove90(conf) ==
    IF conf > 900 THEN "confirmed"
    ELSE IF conf >= 550 THEN "probable"
    ELSE IF conf > 0 THEN "possible"
    ELSE "unknown"

\* lines 193-200
label(conf) ==
    IF conf >= 850 THEN "confirmed"
    ELSE IF conf >= 550 THEN "probable"
    ELSE IF conf > 0 THEN "possible"
    ELSE "unknown"

\* mutant: the category is looked up as it is written
map_category_to_layer_AsWritten(category) ==
    IF category = "" THEN "Commercial Execution"
    ELSE IF category \in Layers THEN category
    ELSE IF category \in DOMAIN CATEGORY_TO_LAYER THEN CATEGORY_TO_LAYER[category]
    ELSE "Commercial Execution"

\* lines 203-209
map_category_to_layer(category) ==
    LET c == StripLower(category)
    IN IF c = "" THEN "Commercial Execution"
       ELSE IF category \in Layers THEN category
       ELSE IF c \in DOMAIN CATEGORY_TO_LAYER THEN CATEGORY_TO_LAYER[c]
       ELSE "Commercial Execution"

\* lines 212-226: the cached list of products
load_detectors == rules

\* round(best, 2); no weight of the model lies halfway between two hundredths
Round2(w) == ((w + 5) \div 10) * 10

\* lines 186-190: re.search(pattern, haystack, re.I) on part of the text; a
\* pattern of the model is a literal, or does not compile ("(")
safe_regex(v, part) ==
    IF "(" \in Range(v) THEN FALSE ELSE In(LowerText(v), LowerText(part))

\* lines 764-773: the parts of searchable_blob.  They are joined by blanks and
\* no pattern value of the model holds a blank, so a value is found in the blob
\* exactly when it is found in one of the parts; the texts of the model are far
\* shorter than MAX_TEXT_CHARS
SearchableParts(sig) ==
    ({sig.blob} \cup sig.asset_domains \cup sig.asset_urls \cup Range(sig.cookie_keys)
     \cup Range(sig.headers) \cup {LowerText(sig.booking_flow.final_domain)}
     \cup Range(sig.booking_flow.candidates)) \ {<<>>}

Pat(t, v, w) == [type |-> t, value |-> v, weight |-> w]

\* line 793
Skipped(p) == p.type = "" \/ p.value = <<>> \/ p.weight <= 0

\* lines 798-812: the pattern is found in the signals
Matches(p, sig) ==
    LET booking_final == LowerText(sig.booking_flow.final_domain)
    IN CASE p.type = "domain_contains" ->
              \/ \E d \in sig.asset_domains : In(p.value, d)
              \/ booking_final # <<>> /\ In(p.value, booking_final)
         [] p.type = "text_regex" ->
              \E part \in SearchableParts(sig) : safe_regex(p.value, part)
         [] p.type = "text_contains" ->
              \E part \in SearchableParts(sig) : In(LowerText(p.value), LowerText(part))
         [] p.type = "cookie_contains" ->
              \E ck \in Range(sig.cookie_keys) : In(LowerText(p.value), LowerText(ck))
         [] OTHER -> FALSE

\* mutant: the weights of the matching patterns add up
RECURSIVE SumLoop(_, _, _, _)
SumLoop(patterns, i, sig, best) ==
    IF i > Len(patterns) THEN best
    ELSE IF ~Skipped(patterns[i]) /\ Matches(patterns[i], sig)
      THEN SumLoop(patterns, i + 1, sig, best + patterns[i].weight)
      ELSE SumLoop(patterns, i + 1, sig, best)

RuleBest_Sum(product, sig) == SumLoop(product.patterns, 1, sig, 0)

\* lines 784-812: the loop over the patterns of one product
RECURSIVE BestLoop(_, _, _, _)
BestLoop(patterns, i, sig, best) ==
    IF i > Len(patterns) THEN best
    ELSE IF ~Skipped(patterns[i]) /\ Matches(patterns[i], sig)
      THEN BestLoop(patterns, i + 1, sig, Max(best, patterns[i].weight))
      ELSE BestLoop(patterns, i + 1, sig, best)

RuleBest(product, sig) == BestLoop(product.patterns, 1, sig, 0)

\* lines 815-822
Detection(product, best) ==
    [vendor |-> Or(product.vendor, "Unknown"),
     product |-> Or(product.product, "Unknown"),
     category |-> Or(product.category, "Unknown"),
     confidence |-> Round2(best),
     label |-> label(best),
     source |-> "public_signal"]

\* mutant: the layers of the call before are used again
FreshLayers_Reused == IF calls = <<>> THEN [layer \in Layers |-> <<>>] ELSE by_layer

\* line 776
FreshLayers == [layer \in Layers |-> <<>>]

\* lines 778-828: the loop over the products
RECURSIVE DetectLoop(_, _, _, _, _)
DetectLoop(detectors, i, sig, dets, bl) ==
    IF i > Len(detectors) THEN [detections |-> dets, by_layer |-> bl]
    ELSE LET best == RuleBest(detectors[i], sig)
             det == Detection(detectors[i], best)
             mapped == map_category_to_layer(det.category)
             layer == IF mapped \notin DOMAIN bl THEN "Commercial Execution" ELSE mapped
         IN IF best > 0
              THEN DetectLoop(detectors, i + 1, sig, Append(dets, det),
                              [bl EXCEPT ![layer] = Append(@, det)])
              ELSE DetectLoop(detectors, i + 1, sig, dets, bl)

\* lines 754-830
detect_tools_from_signals(sig) == DetectLoop(load_detectors, 1, sig, <<>>, FreshLayers)

\* lines 232-255; by_layer.setdefault(layer, []) adds the key when it is missing
inject_confirmed_system(bl, dets, vendor, layer, category, product) ==
    IF ~Truthy(vendor) THEN [by_layer |-> bl, detections |-> dets]
    ELSE LET det == [vendor |-> vendor[1], product |-> product, category |-> category,
                     confidence |-> 990, label |-> "confirmed",
                     source |-> "customer_confirmed"]
         IN [by_layer |-> [l \in DOMAIN bl \cup {layer} |->
                              IF l = layer
                                THEN Append(IF l \in DOMAIN bl THEN bl[l] ELSE <<>>, det)
                                ELSE bl[l]],
             detections |-> Append(dets, det)]

\* lines 689-741: one entry per canonical layer (the likely-state texts of the
\* layers without detections are left out)
build_layer_summary(bl) ==
    [layer \in Layers |->
        LET dets == IF layer \in DOMAIN bl THEN bl[layer] ELSE <<>>
        IN [observed |-> dets # <<>>, detections |-> dets]]

\* line 180: urlparse raises ValueError on a host that opens a bracket and
\* does not close it
UrlparseRaises(u) == u = "http://[::1"

HasScheme(u) == u \in {"https://hotel.test", "https://rival.test"}

\* lines 176-183, on the URLs of the model (none has blanks around it)
normalise_url(u) ==
    IF u = "" THEN [raised |-> FALSE, value |-> ""]
    ELSE IF UrlparseRaises(u) THEN [raised |-> TRUE, value |-> ""]
    ELSE IF ~HasScheme(u) THEN [raised |-> FALSE, value |-> "https://" \o u]
    ELSE [raised |-> FALSE, value |-> u]

\* lines 975-983 and 894-901: opportunity_model inside its try
Opportunity ==
    IF "opportunity_model" \in failing THEN "opportunity_model failed" ELSE "modelled"

\* what a call of render_report_md does on a payload, "analysis" for an
\* analysis object and "reduced" for {"scores", "opportunity"}: it returns
\* ("ok") or raises
render_report_md(payload) ==
    IF "render_Exception" \in failing THEN "Exception"
    ELSE IF "render_TypeError" \in failing THEN "TypeError"
    ELSE IF "render_TypeError_on_analysis" \in failing /\ payload = "analysis" THEN "TypeError"
    ELSE "ok"

\* the "evidence" entry of a signals bundle (lines 488 and 614-626)
EvidenceOf(sig) == [pages_fetched |-> sig.pages, booking_flow |-> sig.booking_flow]

\* lines 893-940: the fallback response (the overall score, None, is left out)
fallback_response(error, url) ==
    [analysis |->
        [url |-> url,
         detections |-> <<>>,
         scores |-> [layer_scores |-> <<>>, error |-> <<>>],
         layers |-> build_layer_summary([layer \in Layers |-> <<>>]),
         opportunity |-> Opportunity,
         evidence |-> [crawl_errors |-> <<error>>],
         competitor |-> <<>>,
         comparison |-> <<>>,
         error |-> <<error>>],
     report_md |-> IF render_report_md("analysis") = "ok" THEN "report" ELSE "apology"]

----------------------------------------------------------------------------
(* score_layers is imported from scoring (line 15) and is not among the    *)
(* files of src/: it is written here from the specification's "Layer       *)
(* Scoring Engine" (a layer without detections gets the fixed baseline and *)
(* the state inferred-baseline; otherwise the strengths confidence x       *)
(* source multiplier of the top detections are averaged into an uplift on  *)
(* the baseline, clamped to [baseline, 5]).  Scores are in thousandths.    *)

BASELINE == 2400
UPLIFT == 2600
TOP_N == 4
OUT_OF == 5000

SourceMultiplier(source) == IF source = "customer_confirmed" THEN 1000 ELSE 800

Strength(det) == (det.confidence * SourceMultiplier(det.source)) \div 1000

\* the sum of the n greatest numbers of a sequence
RECURSIVE TopSum(_, _)
TopSum(xs, n) ==
    IF n = 0 \/ xs = <<>> THEN 0
    ELSE LET i == CHOOSE j \in 1..Len(xs) : \A k \in 1..Len(xs) : xs[k] <= xs[j]
         IN xs[i] + TopSum(SubSeq(xs, 1, i - 1) \o SubSeq(xs, i + 1, Len(xs)), n - 1)

\* mutant: a layer nothing was seen of scores 0
LayerScore_Zero(layer, dets) ==
    IF dets = <<>>
      THEN [layer |-> layer, score |-> 0, out_of |-> OUT_OF, state |-> "inferred_baseline"]
      ELSE [layer |-> layer, score |-> OUT_OF, out_of |-> OUT_OF, state |-> "observed"]

LayerScore(layer, dets) ==
    IF dets = <<>>
      THEN [layer |-> layer, score |-> BASELINE, out_of |-> OUT_OF,
            state |-> "inferred_baseline"]
      ELSE LET strengths == [n \in 1..Len(dets) |-> Strength(dets[n])]
               top == Min(TOP_N, Len(dets))
               avg == TopSum(strengths, top) \div top
               raw == BASELINE + (avg * UPLIFT) \div 1000
           IN [layer |-> layer,
               score |-> Max(BASELINE, Min(OUT_OF, raw)),
               out_of |-> OUT_OF,
               state |-> IF \E n \in 1..Len(dets) : dets[n].source = "customer_confirmed"
                           THEN "confirmed" ELSE "observed"]

\* the score result (the overall score is left out)
score_layers(bl) ==
    [layer_scores |->
        [i \in 1..Len(CANONICAL_LAYER_ORDER) |->
            LET layer == CANONICAL_LAYER_ORDER[i]
            IN LayerScore(layer, IF layer \in DOMAIN bl THEN bl[layer] ELSE <<>>)],
     error |-> <<>>]

\* lines 969-973 and 1035-1038: score_layers inside its try
Scored(bl, marker) ==
    IF "score_layers" \in failing
      THEN [layer_scores |-> <<>>, error |-> <<marker>>]
      ELSE score_layers(bl)

\* lines 844-855 of compute_comparison: layer name -> score
LayerMap(x) ==
    [layer \in {x.scores.layer_scores[i].layer : i \in 1..Len(x.scores.layer_scores)} |->
        LET i == CHOOSE j \in 1..Len(x.scores.layer_scores) :
                    /\ x.scores.layer_scores[j].layer = layer
                    /\ \A k \in (j + 1)..Len(x.scores.layer_scores) :
                          x.scores.layer_scores[k].layer # layer
        IN x.scores.layer_scores[i].score]

\* lines 836-879 (the delta of the overall scores is left out)
compute_comparison(a, b) ==
    IF "compute_comparison" \in failing
      THEN [error |-> <<"comparison_failed">>]
      ELSE [error |-> <<>>,
            layer_deltas |->
                LET both == SelectSeq(CANONICAL_LAYER_ORDER,
                                      LAMBDA k : k \in DOMAIN LayerMap(a)
                                                 /\ k \in DOMAIN LayerMap(b))
                IN [n \in 1..Len(both) |->
                       [layer |-> both[n],
                        delta_0_to_5 |-> Round2(LayerMap(a)[both[n]] - LayerMap(b)[both[n]])]],
            booking_engine_domain_a |-> a.evidence.booking_flow.final_domain,
            booking_engine_domain_b |-> b.evidence.booking_flow.final_domain]

----------------------------------------------------------------------------
(* The inputs of an analysis: the request, the rule set of detectors.yaml  *)
(* and what a crawl returns.                                               *)

NoSignals ==
    [pages |-> <<>>, blob |-> <<>>, asset_domains |-> {}, asset_urls |-> {},
     cookie_keys |-> <<>>, headers |-> <<>>,
     booking_flow |-> [final_domain |-> <<>>, candidates |-> <<>>]]

\* the bundles of five crawled sites (the second one loads nothing but the
\* asset domain duetto.com), and the bundle of a crawl whose home page could
\* not be fetched
CrawlOutcomes ==
    { NoSignals,
      [NoSignals EXCEPT !.pages = <<"/">>,
                        !.asset_domains = {<<"duetto", "com">>}],
      [NoSignals EXCEPT !.pages = <<"/">>,
                        !.blob = <<"Welcome", "to", "our", "hotel">>,
                        !.asset_domains = {<<"fonts", "cdn", "test">>}],
      [NoSignals EXCEPT !.pages = <<"/", "/rooms">>,
                        !.blob = <<"Pricing", "by", "Duetto", "Cloud">>,
                        !.asset_domains = {<<"cdn", "duetto", "com">>,
                                           <<"www", "google-analytics", "com">>},
                        !.asset_urls = {<<"cdn", "duetto", "com", "tag", "js">>},
                        !.cookie_keys = << <<"_GA", "id">> >>,
                        !.headers = << <<"server", ":", "nginx">> >>,
                        !.booking_flow = [final_domain |-> <<"book", "hotel", "test">>,
                                          candidates |-> << <<"hotel", "test", "book-now">> >>]],
      [NoSignals EXCEPT !.pages = <<"/">>,
                        !.blob = <<"Welcome">>,
                        !.cookie_keys = << <<"_ga">>, <<"PHPSESSID">> >>],
      [NoSignals EXCEPT !.pages = <<"/">>,
                        !.blob = <<"Welcome">>,
                        !.booking_flow = [final_domain |-> <<"live", "duetto", "com">>,
                                          candidates |-> << <<"hotel", "test", "reserve">> >>]] }

Product(v, c, ps) == [vendor |-> <<v>>, product |-> <<v \o " Suite">>, category |-> c, patterns |-> ps]

\* the products a detectors.yaml of the model may list
RuleCatalogue ==
    << Product("Duetto", <<"rms">>,
               << Pat("domain_contains", <<"duetto", "com">>, 900) >>),
       Product("GameChanger", <<"PMS ">>,
               << Pat("text_contains", <<"Duetto">>, 549),
                  Pat("text_regex", <<"duetto">>, 300),
                  Pat("domain_contains", <<"Duetto">>, 1000) >>),
       Product("Google Analytics", <<"analytics">>,
               << Pat("cookie_contains", <<"_ga">>, 550),
                  Pat("text_contains", <<"google-analytics">>, 250) >>),
       Product("SynXis", <<"Distribution">>,
               << Pat("text_regex", <<"(">>, 1000),
                  Pat("text_contains", <<"book-now">>, 850),
                  Pat("text_contains", <<"hotel">>, 849) >>),
       Product("Loud", <<>>,
               << Pat("domain_contains", <<"duetto">>, 1500) >>),
       Product("Silent", <<"spa">>,
               << Pat("text_contains", <<"Welcome">>, 0),
                  Pat("text_contains", <<"Welcome">>, -200),
                  Pat("header_contains", <<"nginx">>, 900),
                  Pat("", <<"Welcome">>, 900),
                  Pat("text_contains", <<>>, 900) >>),
       Product("Faint", <<"">>,
               << Pat("text_contains", <<"nginx">>, 4) >>),
       Product("Blank", <<"  ">>,
               << Pat("cookie_contains", <<"_GA">>, 300) >>),
       Product("Revinate", <<"guest data & crm">>,
               << Pat("cookie_contains", <<"phpsessid">>, 700),
                  Pat("text_contains", <<"Cloud">>, 100) >>) >>

\* a detectors.yaml: no product, one, two of them in either order, or all
RuleSets ==
    {<<>>, RuleCatalogue}
    \cup {<<RuleCatalogue[i]>> : i \in 1..Len(RuleCatalogue)}
    \cup {<<RuleCatalogue[ij[1]], RuleCatalogue[ij[2]]>> :
             ij \in {p \in (1..Len(RuleCatalogue)) \X (1..Len(RuleCatalogue)) : p[1] # p[2]}}

\* what the operator confirms besides the PMS: nothing, the booking engine, or
\* booking engine, channel manager and CRM
OtherVendors ==
    { [booking_engine_vendor |-> <<>>, channel_manager_vendor |-> <<>>, crm_vendor |-> <<>>],
      [booking_engine_vendor |-> <<"SynXis">>, channel_manager_vendor |-> <<>>,
       crm_vendor |-> <<"">>],
      [booking_engine_vendor |-> <<"SynXis">>, channel_manager_vendor |-> <<"SiteMinder">>,
       crm_vendor |-> <<"Revinate">>] }

\* lines 56-69: the fields of an AnalyzeRequest that analyze branches on
AnalyzeRequest(url, p, o, c) ==
    [url |-> url,
     pms_vendor |-> p,
     booking_engine_vendor |-> o.booking_engine_vendor,
     channel_manager_vendor |-> o.channel_manager_vendor,
     crm_vendor |-> o.crm_vendor,
     competitor_url |-> c]

NoOtherVendors ==
    [booking_engine_vendor |-> <<>>, channel_manager_vendor |-> <<>>, crm_vendor |-> <<>>]

\* requests for hotel.test with and without a competitor, and requests whose
\* url or competitor_url is empty, has a scheme, or does not parse
Requests ==
    { AnalyzeRequest("hotel.test", p, o, c) :
        p \in {<<>>, <<"">>, <<"Opera">>}, o \in OtherVendors,
        c \in {<<>>, <<"rival.test">>} }
    \cup { AnalyzeRequest("https://hotel.test", <<"Opera">>, NoOtherVendors, <<"https://rival.test">>),
           AnalyzeRequest("hotel.test", <<>>, NoOtherVendors, <<"">>),
           AnalyzeRequest("", <<"Opera">>, NoOtherVendors, <<>>),
           AnalyzeRequest("http://[::1", <<"Opera">>, NoOtherVendors, <<>>),
           AnalyzeRequest("hotel.test", <<>>, NoOtherVendors, <<"http://[::1">>) }

\* the calls that may raise while a request is analysed: the awaited crawl,
\* detect (a weight that is not a number, line 791), score_layers,
\* opportunity_model, interpret_score, the competitor scan before its result
\* is stored, the body of compute_comparison, and render_report_md
Stages ==
    {"crawl_site_signals", "detect_tools_from_signals", "score_layers", "opportunity_model",
     "interpret_score", "competitor_scan", "compute_comparison", "render_Exception",
     "render_TypeError", "render_TypeError_on_analysis"}

\* the failures of one analysis: one stage, or two of them together
FaultSets ==
    {{st} : st \in Stages}
    \cup { {"score_layers", "opportunity_model"}, {"score_layers", "compute_comparison"},
           {"competitor_scan", "render_Exception"}, {"crawl_site_signals", "render_Exception"},
           {"opportunity_model", "render_TypeError_on_analysis"} }

FaultRequests ==
    { AnalyzeRequest("hotel.test", p, NoOtherVendors, c) :
        p \in {<<>>, <<"Opera">>}, c \in {<<>>, <<"rival.test">>} }

FaultRuleSets == {<<>>, <<RuleCatalogue[1]>>, <<RuleCatalogue[1], RuleCatalogue[3]>>}

----------------------------------------------------------------------------
(* analyze, from the return of its crawl on.                               *)

\* mutant: the PMS is filed under a layer name that is not canonical
Injections_Misspelt ==
    << [at |-> "inject_pms", field |-> "pms_vendor", layer |-> "Core systems",
        category |-> "PMS", product |-> "Property Management System"],
       [at |-> "inject_booking_engine", field |-> "booking_engine_vendor",
        layer |-> "Distribution", category |-> "Booking Engine",
        product |-> "Booking Engine"],
       [at |-> "inject_channel_manager", field |-> "channel_manager_vendor",
        layer |-> "Distribution", category |-> "Channel Manager",
        product |-> "Channel Manager"],
       [at |-> "inject_crm", field |-> "crm_vendor", layer |-> "Guest Data & CRM",
        category |-> "CRM", product |-> "CRM / Guest Data Platform"] >>

\* lines 964-967: the four calls of inject_confirmed_system, in order
Injections ==
    << [at |-> "inject_pms", field |-> "pms_vendor", layer |-> "Core Systems",
        category |-> "PMS", product |-> "Property Management System"],
       [at |-> "inject_booking_engine", field |-> "booking_engine_vendor",
        layer |-> "Distribution", category |-> "Booking Engine",
        product |-> "Booking Engine"],
       [at |-> "inject_channel_manager", field |-> "channel_manager_vendor",
        layer |-> "Distribution", category |-> "Channel Manager",
        product |-> "Channel Manager"],
       [at |-> "inject_crm", field |-> "crm_vendor", layer |-> "Guest Data & CRM",
        category |-> "CRM", product |-> "CRM / Guest Data Platform"] >>

\* the record of one call of detect_tools_from_signals
Call(sig, out) ==
    [signals |-> sig, rules |-> rules, detections |-> out.detections, by_layer |-> out.by_layer]

\* line 959
NoPages(sig) == sig.pages = <<>>

AnaInit ==
    /\ CrawlIdle
    /\ AggIdle
    /\ PairIdle
    /\ GradeIdle
    /\ \/ req \in Requests /\ rules \in RuleSets /\ failing = {}
       \/ req \in FaultRequests /\ rules \in FaultRuleSets /\ failing \in FaultSets
    /\ apc = "entry"
    /\ signals = <<>>
    /\ detections = <<>>
    /\ by_layer = <<>>
    /\ calls = <<>>
    /\ scores = <<>>
    /\ analysis = <<>>
    /\ report_md = <<>>

\* local `url` (line 952)
url == normalise_url(req.url).value

\* lines 1078-1084: the handler of the outer try
Unhandled ==
    LET fb == fallback_response("unhandled_processing_error", url)
    IN /\ analysis' = <<fb.analysis>>
       /\ report_md' = <<fb.report_md>>
       /\ apc' = "returned"

\* lines 952-954, before the try: an exception raised here leaves analyze
Normalise ==
    /\ apc = "entry"
    /\ apc' = IF \/ normalise_url(req.url).raised
                 \/ Truthy(req.competitor_url) /\ normalise_url(req.competitor_url[1]).raised
               THEN "raised" ELSE "crawl"
    /\ UNCHANGED <<req, failing, rules, signals, detections, by_layer, calls, scores,
                   analysis, report_md, crawlVars, aggVars, pairVars, gradeVars>>

\* lines 958-960: the awaited crawl returns its bundle, or raises; the crawl
\* of the empty URL fetches nothing
PrimaryCrawled ==
    /\ apc = "crawl"
    /\ IF "crawl_site_signals" \in failing
         THEN Unhandled /\ signals' = signals
         ELSE \E sig \in CrawlOutcomes :
                /\ url = "" => sig = NoSignals
                /\ signals' = <<sig>>
                /\ IF NoPages(sig)
                     THEN LET fb == fallback_response("crawl_failed", url)
                          IN /\ analysis' = <<fb.analysis>>
                             /\ report_md' = <<fb.report_md>>
                             /\ apc' = "returned"
                     ELSE /\ analysis' = analysis
                          /\ report_md' = report_md
                          /\ apc' = "detect"
    /\ UNCHANGED <<req, failing, rules, detections, by_layer, calls, scores, crawlVars,
                   aggVars, pairVars, gradeVars>>

\* line 962
Detect ==
    /\ apc = "detect"
    /\ IF "detect_tools_from_signals" \in failing
         THEN Unhandled /\ UNCHANGED <<detections, by_layer, calls>>
         ELSE /\ LET out == detect_tools_from_signals(signals[1])
                 IN /\ detections' = out.detections
                    /\ by_layer' = out.by_layer
                    /\ calls' = Append(calls, Call(signals[1], out))
              /\ apc' = Injections[1].at
              /\ UNCHANGED <<analysis, report_md>>
    /\ UNCHANGED <<req, failing, rules, signals, scores, crawlVars, aggVars, pairVars, gradeVars>>

\* lines 964-967: the next call of inject_confirmed_system
InjectConfirmed ==
    \E k \in 1..Len(Injections) :
        /\ apc = Injections[k].at
        /\ LET i == Injections[k]
               out == inject_confirmed_system(by_layer, detections, req[i.field],
                                              i.layer, i.category, i.product)
           IN /\ by_layer' = out.by_layer
              /\ detections' = out.detections
        /\ apc' = IF k < Len(Injections) THEN Injections[k + 1].at ELSE "score"
        /\ UNCHANGED <<req, failing, rules, signals, calls, scores, analysis, report_md,
                       crawlVars, aggVars, pairVars, gradeVars>>

\* lines 969-973
ScoreLayers ==
    /\ apc = "score"
    /\ scores' = <<Scored(by_layer, "score_layers failed")>>
    /\ apc' = "build"
    /\ UNCHANGED <<req, failing, rules, signals, detections, by_layer, calls, analysis,
                   report_md, crawlVars, aggVars, pairVars, gradeVars>>

\* lines 1002-1026: the analysis object
Analysis ==
    [url |-> url,
     detections |-> detections,
     scores |-> scores[1],
     layers |-> build_layer_summary(by_layer),
     opportunity |-> Opportunity,
     evidence |-> EvidenceOf(signals[1]),
     competitor |-> <<>>,
     comparison |-> <<>>,
     error |-> <<>>]

\* lines 975-1029: the analysis object is built; the competitor's crawl is
\* awaited when the request names a competitor
BuildAnalysis ==
    /\ apc = "build"
    /\ IF "interpret_score" \in failing
         THEN Unhandled
         ELSE /\ analysis' = <<Analysis>>
              /\ report_md' = report_md
              /\ apc' = IF Truthy(req.competitor_url) THEN "competitor" ELSE "render"
    /\ UNCHANGED <<req, failing, rules, signals, detections, by_layer, calls, scores,
                   crawlVars, aggVars, pairVars, gradeVars>>

\* mutant: the competitor's entry is stored as soon as its crawl is started
CompetitorScanFailed_EntryKept(a) ==
    [a EXCEPT !.competitor = <<[url |-> normalise_url(req.competitor_url[1]).value]>>,
              !.comparison = <<[error |-> <<"competitor_scan_failed">>]>>]

\* lines 1060-1062: the handler of the competitor scan
CompetitorScanFailed(a) ==
    [a EXCEPT !.comparison = <<[error |-> <<"competitor_scan_failed">>]>>]

\* lines 1044-1056
CompetitorAnalysis(comp_signals, out) ==
    [url |-> normalise_url(req.competitor_url[1]).value,
     detections |-> out.detections,
     scores |-> Scored(out.by_layer, "score_layers_failed"),
     layers |-> build_layer_summary(out.by_layer),
     evidence |-> EvidenceOf(comp_signals)]

\* lines 1031-1062: the competitor's crawl returns its bundle, or the scan
\* raises before its result is stored
CompetitorCrawled ==
    /\ apc = "competitor"
    /\ IF "competitor_scan" \in failing
         THEN /\ analysis' = <<CompetitorScanFailed(analysis[1])>>
              /\ calls' = calls
         ELSE \E comp_signals \in CrawlOutcomes :
                LET out == detect_tools_from_signals(comp_signals)
                    competitor_analysis == CompetitorAnalysis(comp_signals, out)
                IN /\ calls' = Append(calls, Call(comp_signals, out))
                   /\ analysis' = <<[analysis[1] EXCEPT
                                       !.competitor = <<competitor_analysis>>,
                                       !.comparison =
                                          <<compute_comparison(analysis[1], competitor_analysis)>>]>>
    /\ apc' = "render"
    /\ UNCHANGED <<req, failing, rules, signals, detections, by_layer, scores, report_md,
                   crawlVars, aggVars, pairVars, gradeVars>>

\* lines 1064-1076: the report is rendered and the response returned; an
\* exception of the second render_report_md call reaches the outer handler
Render ==
    /\ apc = "render"
    /\ LET first == render_report_md("analysis")
           second == render_report_md("reduced")
       IN IF first = "TypeError" /\ second # "ok"
            THEN Unhandled
            ELSE /\ report_md' = << CASE first = "ok" -> "report"
                                      [] first = "TypeError" -> "reduced_report"
                                      [] OTHER -> "formatting_issue" >>
                 /\ analysis' = analysis
                 /\ apc' = "returned"
    /\ UNCHANGED <<req, failing, rules, signals, detections, by_layer, calls, scores,
                   crawlVars, aggVars, pairVars, gradeVars>>

AnaNext ==
    \/ Normalise
    \/ PrimaryCrawled
    \/ Detect
    \/ InjectConfirmed
    \/ ScoreLayers
    \/ BuildAnalysis
    \/ CompetitorCrawled
    \/ Render

SpecAnalyze == AnaInit /\ [][AnaNext]_vars

----------------------------------------------------------------------------
(* Two analyses in flight in one process.  Each call of                    *)
(* crawl_site_signals has its own client and its own lists `pages` and     *)
(* `errors`; each call of detect_tools_from_signals has its own            *)
(* `detections` and `by_layer`; the list of products load_detectors caches *)
(* is read by both and written by neither.  The event loop runs one task   *)
(* from the reply it awaited to its next await, then any task whose reply  *)
(* has arrived.  Both tasks crawl the same site, and the network answers   *)
(* each of them on its own.                                                *)

PairTasks == {1, 2}

\* the sites of the two concurrent crawls
PairSites ==
    { [n |-> 1, book |-> 3, parser_ok |-> TRUE],
      [n |-> 0, book |-> 0, parser_ok |-> TRUE],
      [n |-> 1, book |-> 3, parser_ok |-> FALSE] }

\* lines 576-603: the attribute values of the elements of the pages, read as
\* the text of the page and (when the parser works) resolved to asset URLs
RECURSIVE ElemsOf(_, _)
ElemsOf(pgs, i) ==
    IF i > Len(pgs) THEN <<>>
    ELSE LET es == HtmlOf(pgs[i]).elems
         IN [k \in 1..Len(es) |-> [page |-> pgs[i].url, href |-> es[k].href]] \o ElemsOf(pgs, i + 1)

AssetUrl(e) == urljoin(e.page, e.href)

\* lines 628-640 (and 489 for the early return): the bundle of a crawl as
\* detect_tools_from_signals reads it
SignalsOf(bundle) ==
    IF "blob" \notin bundle.keys
      THEN [NoSignals EXCEPT !.pages = bundle.pages]
      ELSE LET es == ElemsOf(bundle.pages, 1)
               parsed == IF site.parser_ok THEN Range(es) ELSE {}
               bf == bundle.booking_flow[1]
           IN [pages |-> bundle.pages,
               blob |-> [k \in 1..Len(es) |-> es[k].href.path],
               asset_urls |-> {<<AssetUrl(e).host, AssetUrl(e).path>> : e \in parsed},
               asset_domains |->
                   {<<Lower(AssetUrl(e).host)>> : e \in {x \in parsed : AssetUrl(x).host # ""}},
               cookie_keys |-> <<>>,
               headers |-> <<>>,
               booking_flow |->
                   [final_domain |-> bf.final_domain,
                    candidates |-> [k \in 1..Len(bf.candidates) |->
                                       <<bf.candidates[k].host, bf.candidates[k].path>>]]]

\* the products of the detectors.yaml the two analyses share
PairRules ==
    << Product("Engine", <<"booking engine">>,
               << Pat("domain_contains", <<"live.engine.test">>, 900),
                  Pat("domain_contains", <<"engine.test">>, 600) >>),
       Product("Pages", <<"analytics">>,
               << Pat("text_contains", <<"/offers-1">>, 400) >>) >>

\* the replies the network may give to the awaited request of a crawl
RepliesAt(c) ==
    CASE c.pc = "home" -> {Resp(200, 0), Resp(503, 0), Fail("timeout")}
      [] c.pc = "wellknown" ->
            IF c.idx = 1 THEN {Resp(200, 0), Fail(FailKindOf(c.issue[1]))} ELSE {Resp(200, 0)}
      [] c.pc = "links" -> LinkReplies(site, c.issue[1])
      [] c.pc = "booking" -> {Resp(200, 0), Resp(200, 1), Fail("timeout")}

\* lines 486-566: the coroutine of one crawl runs on with the reply it awaited
StepConf(c, reply) ==
    CASE c.pc = "home" -> AfterHome(c.L, safe_get(c.issue[1], reply))
      [] c.pc = "wellknown" ->
            RunWellKnown(Absorb(c.L, safe_get(c.issue[1], reply)), c.idx + 1)
      [] c.pc = "links" -> RunLinks(Absorb(c.L, safe_get(c.issue[1], reply)), c.idx + 1)
      [] c.pc = "booking" -> AfterBooking(c.L, c.issue[1], reply)

\* lines 472-486: a call of crawl_site_signals up to its first await, with
\* its own client and its own empty lists
StartConf == AwaitConf("home", 1, root_url, Locals(<<>>, <<>>, <<>>, NewBookingFlow))

NotStarted ==
    [conf |-> [pc |-> "init", idx |-> 0, issue |-> <<>>,
               L |-> Locals(<<>>, <<>>, <<>>, NewBookingFlow), result |-> <<>>,
               session |-> "none"],
     replies |-> <<>>,
     detected |-> <<>>]

\* mutant: `errors` is one list of the module, appended to by every crawl
Stepped_SharedErrors(ts, t, c, reply) ==
    [u \in DOMAIN ts |->
        IF u = t THEN [ts[u] EXCEPT !.conf = c, !.replies = Append(@, reply)]
        ELSE [ts[u] EXCEPT !.conf.L.errors =
                 IF Len(c.L.errors) > Len(ts[t].conf.L.errors)
                   THEN Append(@, c.L.errors[Len(c.L.errors)]) ELSE @]]

\* lines 472-484: the lists a crawl writes are locals of its call, so a step
\* of task t changes the record of task t only
Stepped(ts, t, c, reply) ==
    [ts EXCEPT ![t] = [@ EXCEPT !.conf = c, !.replies = Append(@, reply)]]

PairInit ==
    /\ site \in PairSites
    /\ pc = "init"
    /\ idx = 0
    /\ session = "none"
    /\ requests = <<>>
    /\ pages = <<>>
    /\ errors = <<>>
    /\ internal = <<>>
    /\ booking_flow = NewBookingFlow
    /\ result = <<>>
    /\ AggIdle
    /\ GradeIdle
    /\ req = <<>>
    /\ failing = {}
    /\ rules = PairRules
    /\ apc = "idle"
    /\ signals = <<>>
    /\ detections = <<>>
    /\ by_layer = <<>>
    /\ calls = <<>>
    /\ scores = <<>>
    /\ analysis = <<>>
    /\ report_md = <<>>
    /\ tasks = [t \in PairTasks |-> NotStarted]

\* a request arrives: its handler calls crawl_site_signals
TaskStart(t) ==
    /\ tasks[t].conf.pc = "init"
    /\ tasks' = [tasks EXCEPT ![t].conf = StartConf]
    /\ UNCHANGED <<crawlVars, aggVars, anaVars, gradeVars>>

\* the reply task t awaits arrives and its crawl runs to its next await or return
TaskReply(t) ==
    /\ tasks[t].conf.pc \in Awaiting
    /\ \E reply \in RepliesAt(tasks[t].conf) :
          tasks' = Stepped(tasks, t, StepConf(tasks[t].conf, reply), reply)
    /\ UNCHANGED <<crawlVars, aggVars, anaVars, gradeVars>>

\* lines 754-830: the crawl of task t has returned and its signals are scanned
TaskDetect(t) ==
    /\ tasks[t].conf.pc = "done"
    /\ tasks[t].detected = <<>>
    /\ tasks' = [tasks EXCEPT ![t].detected =
                    <<detect_tools_from_signals(SignalsOf(tasks[t].conf.result[1]))>>]
    /\ UNCHANGED <<crawlVars, aggVars, anaVars, gradeVars>>

PairNext ==
    \/ \E t \in PairTasks : TaskStart(t)
    \/ \E t \in PairTasks : TaskReply(t)
    \/ \E t \in PairTasks : TaskDetect(t)

SpecPair == PairInit /\ [][PairNext]_vars

----------------------------------------------------------------------------
(* Grades, gap register and recommendations (src/scoring.py and            *)
(* src/interpretation.py): three pure functions of the stack rows and the  *)
(* integration rows of one intake.  A row is a dict; a key that is missing *)
(* is <<>>, a key with value v is <<v>>.                                   *)

\* rows of `integration_rows`: 0..MaxRows
MaxRows == 2
\* gaps of a register that is handed to build_recommendations: 0..MaxGaps
MaxGaps == 2

StackRow(c, ev, v) == [category |-> c, evidence_level |-> ev, vendor |-> v]
IntegrationRow(s) == [status |-> s]
Gap(n, t) == [gap_name |-> n, trigger |-> t]

\* (vendor or "").strip().lower() on the vendor names of the model
VendorKey(v) ==
    IF v = <<>> THEN ""
    ELSE CASE v[1] = "None" -> "none"
           [] v[1] = " Not provided " -> "not provided"
           [] v[1] = "Power BI" -> "power bi"
           [] OTHER -> v[1]

ConfirmedLevels == {<<"confirmed_self_reported">>, <<"confirmed_evidence_backed">>}
AbsentVendors == {"none", "not provided"}

\* scoring.py lines 32-40
has_category(rows, category) ==
    \E i \in 1..Len(rows) :
        /\ rows[i].category = <<category>>
        /\ rows[i].evidence_level \in ConfirmedLevels
        /\ VendorKey(rows[i].vendor) \notin AbsentVendors

\* interpretation.py lines 6-13
present_vendor(rows, category) ==
    \E i \in 1..Len(rows) :
        /\ rows[i].category = <<category>>
        /\ rows[i].evidence_level \in ConfirmedLevels
        /\ VendorKey(rows[i].vendor) \notin AbsentVendors

\* scoring.py lines 19-29
RECURSIVE CountLoop(_, _, _)
CountLoop(rows, i, counts) ==
    IF i > Len(rows) THEN counts
    ELSE LET s == rows[i].status
         IN CountLoop(rows, i + 1,
               IF s = <<"active_confirmed">> THEN [counts EXCEPT !.active = @ + 1]
               ELSE IF s = <<"not_active_confirmed">> THEN [counts EXCEPT !.not_active = @ + 1]
               ELSE [counts EXCEPT !.unknown = @ + 1])

count_integration_status(rows) ==
    CountLoop(rows, 1, [active |-> 0, not_active |-> 0, unknown |-> 0])

\* scoring.py lines 6-16
grade_from_score(score) ==
    IF score >= 81 THEN "A"
    ELSE IF score >= 61 THEN "B"
    ELSE IF score >= 41 THEN "C"
    ELSE IF score >= 21 THEN "D"
    ELSE "E"

Max2(a, b) == IF a >= b THEN a ELSE b
Clamp100(x) == Max2(0, Min(100, x))

\* int((unknown / total_links) * k): the float product truncated.  For every
\* total_links up to 7 and k in {30, 60} it equals the integer quotient
UnknownPenalty(unknown, total_links, k) == (unknown * k) \div total_links

DIMENSIONS ==
    << "decision_support", "data_flow_integrity", "commercial_leverage",
       "operational_friction", "scalability_resilience" >>

\* mutant: the ratio penalties are taken on the confirmed-active count
dimension_scores_ActiveRatio(stack, integration) ==
    LET counts == count_integration_status(integration)
        total_links == Max2(1, Len(integration))
    IN << 100 - UnknownPenalty(counts.active, total_links, 60)
              - (IF ~has_category(stack, "reporting_bi") THEN 20 ELSE 0),
          Clamp100(100 - counts.unknown * 8 - counts.not_active * 12),
          Clamp100(40 + (IF has_category(stack, "rms") THEN 20 ELSE 0)
                      + (IF has_category(stack, "crm_guest_db") THEN 20 ELSE 0)
                      + (IF has_category(stack, "email_lifecycle") THEN 20 ELSE 0)),
          Clamp100(80 - (IF ~has_category(stack, "housekeeping_maintenance") THEN 20 ELSE 0)
                      - UnknownPenalty(counts.active, total_links, 30)),
          Clamp100(90 - counts.unknown * 6) >>

\* scoring.py lines 50-88: the five scores, in the order of the returned rows
dimension_scores(stack, integration) ==
    LET counts == count_integration_status(integration)
        total_links == Max2(1, Len(integration))
    IN << 100 - UnknownPenalty(counts.unknown, total_links, 60)
              - (IF ~has_category(stack, "reporting_bi") THEN 20 ELSE 0),
          Clamp100(100 - counts.unknown * 8 - counts.not_active * 12),
          Clamp100(40 + (IF has_category(stack, "rms") THEN 20 ELSE 0)
                      + (IF has_category(stack, "crm_guest_db") THEN 20 ELSE 0)
                      + (IF has_category(stack, "email_lifecycle") THEN 20 ELSE 0)),
          Clamp100(80 - (IF ~has_category(stack, "housekeeping_maintenance") THEN 20 ELSE 0)
                      - UnknownPenalty(counts.unknown, total_links, 30)),
          Clamp100(90 - counts.unknown * 6) >>

\* scoring.py lines 43-140; of the reasons, the counts they quote are kept
compute_grades(stack, integration) ==
    LET sc == dimension_scores(stack, integration)
        counts == count_integration_status(integration)
    IN [i \in 1..Len(DIMENSIONS) |->
           [dimension |-> DIMENSIONS[i],
            grade |-> grade_from_score(sc[i]),
            reasons |-> IF i = 1 THEN <<counts.unknown, Max2(1, Len(integration))>>
                        ELSE IF i = 2 THEN <<counts.active, counts.not_active, counts.unknown>>
                        ELSE <<>>]]

BI_GAP == "No central reporting view"
INTEGRATION_GAP == "Integration status not confirmed"
RMS_GAP == "No confirmed revenue management system"

\* interpretation.py line 50
unknown_links(integration) ==
    SelectSeq(integration, LAMBDA r : r.status = <<"unknown_not_confirmed">>)

\* interpretation.py lines 16-79
build_gap_register(stack, integration) ==
    (IF ~present_vendor(stack, "reporting_bi")
       THEN <<Gap(BI_GAP, <<"system_missing">>)>> ELSE <<>>)
    \o (IF unknown_links(integration) # <<>>
          THEN <<Gap(INTEGRATION_GAP, <<"process_gap_confirmed">>)>> ELSE <<>>)
    \o (IF ~present_vendor(stack, "rms")
          THEN <<Gap(RMS_GAP, <<"system_missing">>)>> ELSE <<>>)

AllowedTriggers ==
    {<<"system_missing">>, <<"integration_not_active">>, <<"process_gap_confirmed">>}

Recommendation(name, first_option) == [gap_name |-> name, tool_options |-> first_option]

\* interpretation.py lines 98-154: the recommendations one eligible gap adds
RecsFor(name) ==
    (IF name = BI_GAP THEN <<Recommendation(name, "Microsoft Power BI")>> ELSE <<>>)
    \o (IF name = RMS_GAP THEN <<Recommendation(name, "IDeaS")>> ELSE <<>>)
    \o (IF name = INTEGRATION_GAP
          THEN <<Recommendation(name, "Integration audit worksheet")>> ELSE <<>>)

\* mutant: the trigger of a gap is not looked at
RECURSIVE RecLoop_AnyTrigger(_, _, _)
RecLoop_AnyTrigger(gaps, i, recs) ==
    IF i > Len(gaps) THEN recs
    ELSE RecLoop_AnyTrigger(gaps, i + 1, recs \o RecsFor(gaps[i].gap_name))

build_recommendations_AnyTrigger(gaps, stack) == RecLoop_AnyTrigger(gaps, 1, <<>>)

\* interpretation.py lines 93-154: the loop over the gaps
RECURSIVE RecLoop(_, _, _)
RecLoop(gaps, i, recs) ==
    IF i > Len(gaps) THEN recs
    ELSE IF gaps[i].trigger \notin AllowedTriggers THEN RecLoop(gaps, i + 1, recs)
    ELSE RecLoop(gaps, i + 1, recs \o RecsFor(gaps[i].gap_name))

\* interpretation.py lines 82-156
build_recommendations(gaps, stack) == RecLoop(gaps, 1, <<>>)

----------------------------------------------------------------------------
(* The inputs of the three functions.                                      *)

Statuses ==
    {<<"active_confirmed">>, <<"not_active_confirmed">>, <<"unknown_not_confirmed">>,
     <<"pending">>, <<>>}

RECURSIVE SeqsUpTo(_, _)
SeqsUpTo(S, n) ==
    IF n = 0 THEN {<<>>}
    ELSE LET shorter == SeqsUpTo(S, n - 1)
         IN shorter \cup {Append(q, x) : q \in {r \in shorter : Len(r) = n - 1}, x \in S}

IntegrationInputs == SeqsUpTo({IntegrationRow(s) : s \in Statuses}, MaxRows)

EvidenceLevels == ConfirmedLevels \cup {<<"public_signal">>, <<>>}
Vendors == {<<"Power BI">>, <<"None">>, <<" Not provided ">>, <<>>}

\* every stack of one row about reporting or revenue management, and some
\* stacks of several rows
StackInputs ==
    {<<>>}
    \cup {<<StackRow(<<c>>, ev, v)>> :
             c \in {"reporting_bi", "rms"}, ev \in EvidenceLevels, v \in Vendors}
    \cup { [i \in 1..5 |->
              StackRow(<<(<<"reporting_bi", "rms", "crm_guest_db", "email_lifecycle",
                            "housekeeping_maintenance">>)[i]>>,
                       <<"confirmed_evidence_backed">>, <<"Power BI">>)],
           << StackRow(<<"reporting_bi">>, <<"confirmed_self_reported">>, <<"None">>),
              StackRow(<<"reporting_bi">>, <<"confirmed_self_reported">>, <<"Power BI">>) >>,
           << StackRow(<<"crm_guest_db">>, <<"confirmed_self_reported">>, <<"Power BI">>),
              StackRow(<<"email_lifecycle">>, <<"public_signal">>, <<"Power BI">>) >>,
           << StackRow(<<"housekeeping_maintenance">>, <<"confirmed_self_reported">>, <<"Power BI">>),
              StackRow(<<"pms">>, <<"confirmed_self_reported">>, <<"Power BI">>) >> }

GapNames == {BI_GAP, INTEGRATION_GAP, RMS_GAP, "Manual rate loading"}
Triggers == AllowedTriggers \cup {<<"inferred_from_public_signal">>, <<>>}

\* the registers a caller may hand to build_recommendations
GapInputs == SeqsUpTo({Gap(n, t) : n \in GapNames, t \in Triggers}, MaxGaps)

GradeInit ==
    /\ CrawlIdle
    /\ AggIdle
    /\ AnaIdle
    /\ PairIdle
    /\ \/ /\ stack_rows \in StackInputs
          /\ integration_rows \in IntegrationInputs
          /\ gap_register = <<>>
       \/ /\ stack_rows = <<>>
          /\ integration_rows = <<>>
          /\ \E g \in GapInputs : gap_register = <<[by |-> "caller", gaps |-> g]>>
    /\ grades = <<>>
    /\ grades_before = <<>>
    /\ added_row = <<>>
    /\ recommendations = <<>>

\* compute_grades(stack_rows, integration_rows)
ComputeGrades ==
    /\ grades = <<>>
    /\ grades' = <<compute_grades(stack_rows, integration_rows)>>
    /\ UNCHANGED <<stack_rows, integration_rows, grades_before, added_row, gap_register,
                   recommendations, crawlVars, aggVars, anaVars, pairVars>>

\* one more integration row is on the intake, before the gaps are looked
\* for, and the grades are computed again
AddRow ==
    /\ grades # <<>>
    /\ added_row = <<>>
    /\ gap_register = <<>>
    /\ \E s \in Statuses :
          /\ added_row' = <<IntegrationRow(s)>>
          /\ integration_rows' = Append(integration_rows, IntegrationRow(s))
          /\ grades' = <<compute_grades(stack_rows, integration_rows')>>
    /\ grades_before' = grades
    /\ UNCHANGED <<stack_rows, gap_register, recommendations, crawlVars, aggVars, anaVars,
                   pairVars>>

\* build_gap_register(stack_rows, integration_rows)
BuildGapRegister ==
    /\ gap_register = <<>>
    /\ gap_register' =
          <<[by |-> "build_gap_register",
             gaps |-> build_gap_register(stack_rows, integration_rows)]>>
    /\ UNCHANGED <<stack_rows, integration_rows, grades, grades_before, added_row,
                   recommendations, crawlVars, aggVars, anaVars, pairVars>>

\* build_recommendations(gaps, stack_rows)
BuildRecommendations ==
    /\ gap_register # <<>>
    /\ recommendations = <<>>
    /\ recommendations' = <<build_recommendations(gap_register[1].gaps, stack_rows)>>
    /\ UNCHANGED <<stack_rows, integration_rows, grades, grades_before, added_row,
                   gap_register, crawlVars, aggVars, anaVars, pairVars>>

GradeNext ==
    \/ ComputeGrades
    \/ AddRow
    \/ BuildGapRegister
    \/ BuildRecommendations

SpecGrades == GradeInit /\ [][GradeNext]_vars

----------------------------------------------------------------------------
(* Reading the request log and the returned bundle.                        *)

InPhase(ph) == {k \in 1..Len(requests) : requests[k].phase = ph}
Failed(k) == requests[k].outcome \in FailKinds
Pending(k) == requests[k].outcome = "pending"

PhaseUrls(ph) ==
    LET sel == SelectSeq(requests, LAMBDA r : r.phase = ph)
    IN [k \in 1..Len(sel) |-> sel[k].url]

\* the failed best-effort fetches, in the order they failed
FailedFetches ==
    LET sel == SelectSeq(requests,
                   LAMBDA r : r.phase \in {"wellknown", "links"} /\ r.outcome \in FailKinds)
    IN [k \in 1..Len(sel) |-> [type |-> sel[k].outcome, url |-> sel[k].url]]

\* the page fetches that were answered, in order
FetchedPages ==
    LET sel == SelectSeq(requests,
                   LAMBDA r : r.phase \in {"home", "wellknown", "links"} /\ r.outcome = "response")
    IN [k \in 1..Len(sel) |-> [url |-> sel[k].url, status_code |-> sel[k].status]]

Returned == result # <<>>
Bundle == result[1]
Aggregated == Returned /\ "blob" \in Bundle.keys
HomeFetched == Len(requests) >= 1 /\ requests[1].outcome = "response"

NoDuplicates(s) == Cardinality(Range(s)) = Len(s)

ErrorNotes(bf) == SelectSeq(bf.evidence, LAMBDA e : e.type = "booking_flow_error")

----------------------------------------------------------------------------
(* C1: if the home-page fetch returns a 4xx/5xx status or times out, the   *)
(* crawl returns at once with empty pages and a non-empty errors list.     *)
(* Stated here as the claim reads; the code keeps a 4xx/5xx response as a  *)
(* page and crawls on.                                                     *)

HomeFailed ==
    /\ Len(requests) >= 1
    /\ \/ requests[1].outcome = "timeout"
       \/ requests[1].outcome = "response" /\ requests[1].status >= 400

C1_HomeFailureAborts ==
    HomeFailed => (pc = "done" /\ Bundle.pages = <<>> /\ Bundle.errors # <<>>)

(* C2: in every reachable state of a crawl, whatever fetches succeed or    *)
(* fail, the crawl holds at most MAX_PAGES pages, and so does the bundle   *)
(* it returns.                                                             *)

C2_PageBudget ==
    /\ Len(pages) <= MAX_PAGES
    /\ Returned => Len(Bundle.pages) <= MAX_PAGES

\* the budget is exhausted in a crawl in which a fetch failed
C2_Witness ==
    /\ pc = "done"
    /\ Len(Bundle.pages) = MAX_PAGES
    /\ Len(errors) = 1

(* C3: the page-budget ceiling is checked before every fetch that follows  *)
(* the home-page fetch, the booking-candidate fetch included: no request   *)
(* other than the home page's is in flight once the ceiling is reached.    *)
(* Stated here as the claim reads.                                         *)

C3_NoFetchAtCeiling ==
    \A k \in 1..Len(requests) :
        (Pending(k) /\ requests[k].phase # "home") => Len(pages) < MAX_PAGES

(* C3, amended: the ceiling is checked before every well-known-path and    *)
(* internal-link fetch, so no page fetch is in flight once the ceiling is  *)
(* reached; the only request issued at the ceiling is the booking          *)
(* candidate's, which adds no page.                                        *)

C3_BudgetBeforePageFetch ==
    /\ pc \in {"wellknown", "links"} => Len(pages) < MAX_PAGES
    /\ \A k \in 1..Len(requests) :
          (Pending(k) /\ Len(pages) >= MAX_PAGES) => requests[k].phase = "booking"
    /\ pc \in {"booking", "done"} /\ HomeFetched => pages = FetchedPages

\* the ceiling is reached with an internal link left unfetched, and the
\* booking candidate is being followed
C3_Witness ==
    /\ pc = "booking"
    /\ Len(pages) = MAX_PAGES
    /\ Len(PhaseUrls("links")) < Len(internal)

(* C4: after a successful home-page fetch, every failed fetch of a         *)
(* well-known path or internal link is in the error log of the returned    *)
(* bundle.  Stated here as the claim reads.                                *)

C4_EveryFailureInBundle ==
    (pc = "done" /\ HomeFetched) => Bundle.evidence.crawl_errors = FailedFetches

(* C4, amended: after a successful home-page fetch, a well-known-path or   *)
(* internal-link fetch that fails with a timeout, request error or         *)
(* unexpected error is appended to errors and the crawl goes on: unless    *)
(* the page budget is reached every well-known path and internal link is   *)
(* requested, and the crawl returns the aggregated bundle, whose error log *)
(* holds the first MAX_CRAWL_ERRORS failures in order.                     *)

C4_BestEffortFetches ==
    /\ HomeFetched => errors = FailedFetches
    /\ (pc = "done" /\ HomeFetched) =>
          /\ Aggregated
          /\ Bundle.pages = FetchedPages
          /\ Bundle.evidence.crawl_errors = Take(FailedFetches, MAX_CRAWL_ERRORS)
    /\ (pc = "done" /\ HomeFetched /\ Len(pages) < MAX_PAGES) =>
          /\ Len(PhaseUrls("wellknown")) = 2
          /\ Len(PhaseUrls("links")) = Len(internal)

\* more fetches failed than the bundle's error log keeps
C4_Witness ==
    /\ pc = "done"
    /\ Len(errors) = MAX_CRAWL_ERRORS + 1
    /\ Len(Bundle.evidence.crawl_errors) = MAX_CRAWL_ERRORS
    /\ Len(Bundle.pages) > 1

(* C5: the HTTP session is acquired once, at crawl start, and is released  *)
(* on every exit path (the early return, the final return, an exception    *)
(* that leaves the crawl); no request is in flight on a released session.  *)

C5_SessionScoped ==
    /\ pc = "init" <=> session = "none"
    /\ pc \in Awaiting => session = "open"
    /\ pc \in {"done", "cancelled"} => session = "closed"
    /\ (\E k \in 1..Len(requests) : Pending(k)) => session = "open"

\* the early return on a home page that timed out
C5_Witness ==
    /\ pc = "done"
    /\ session = "closed"
    /\ Bundle.pages = <<>>
    /\ requests[1].outcome = "timeout"

(* C6: at most one request is in flight at any time, requests are issued   *)
(* in the order home page, /robots.txt, /sitemap.xml, internal links in    *)
(* their discovery order, booking candidate, and the bundle is aggregated  *)
(* only when no request is in flight.                                      *)

PhaseRank(ph) ==
    CASE ph = "home" -> 1 [] ph = "wellknown" -> 2 [] ph = "links" -> 3 [] OTHER -> 4

IsPrefix(s, t) == Len(s) <= Len(t) /\ \A i \in 1..Len(s) : s[i] = t[i]

\* the same-host anchors of a home page at their first occurrence, in
\* document order
DiscoveryOrderOf(s) ==
    LET as == SelectTag(HomeHtml(s), "a")
        us == [i \in 1..Len(as) |-> urljoin(root_url, as[i].href)]
        Eligible(i) == Good(as[i].href) /\ us[i].host = SiteHost
        First(i) == Eligible(i) /\ \A j \in 1..(i - 1) : Eligible(j) => us[j] # us[i]
        firsts == SelectSeq([i \in 1..Len(as) |-> i], First)
    IN [k \in 1..Len(firsts) |-> us[firsts[k]]]

DiscoveryOrders == [s \in Sites |-> DiscoveryOrderOf(s)]

DiscoveryOrder == DiscoveryOrders[site]

C6_Sequential ==
    /\ \A k \in 1..Len(requests) : Pending(k) => k = Len(requests)
    /\ \A k \in 1..(Len(requests) - 1) :
          PhaseRank(requests[k].phase) <= PhaseRank(requests[k + 1].phase)
    /\ IsPrefix(PhaseUrls("home"), <<Url(SiteHost, "/")>>)
    /\ IsPrefix(PhaseUrls("wellknown"),
                <<Url(SiteHost, "/robots.txt"), Url(SiteHost, "/sitemap.xml")>>)
    /\ IsPrefix(PhaseUrls("links"), DiscoveryOrder)
    /\ Len(PhaseUrls("booking")) <= 1
    /\ Returned => \A k \in 1..Len(requests) : ~Pending(k)

\* a crawl that went through all four phases
C6_Witness ==
    /\ pc = "done"
    /\ Len(PhaseUrls("wellknown")) = 2
    /\ Len(PhaseUrls("links")) >= 3
    /\ Len(PhaseUrls("booking")) = 1

(* C7: no second request is issued for a URL whose fetch failed during the *)
(* same crawl.  Stated here as the claim reads.                            *)

C7_FailedUrlNeverRequestedAgain ==
    \A j, k \in 1..Len(requests) :
        (j < k /\ Failed(j)) => requests[k].url # requests[j].url

(* C7, amended: no fetch is retried: a failed fetch is reported exactly    *)
(* once (one error entry per failed page fetch, one booking_flow_error     *)
(* note for a failed booking fetch) and no item of the crawl plan (the     *)
(* home page, each well-known path, each internal link, the booking        *)
(* candidate) is requested twice; a URL whose fetch failed is requested    *)
(* again only where it is also a later item of the plan.                   *)

C7_NoRetry ==
    /\ \A ph \in Awaiting : NoDuplicates(PhaseUrls(ph))
    /\ Len(PhaseUrls("home")) <= 1
    /\ Len(PhaseUrls("booking")) <= 1
    /\ HomeFetched =>
          /\ Len(errors) = Cardinality({k \in InPhase("wellknown") \cup InPhase("links") : Failed(k)})
          /\ \A k \in InPhase("wellknown") \cup InPhase("links") :
                Failed(k) => [type |-> requests[k].outcome, url |-> requests[k].url] \in Range(errors)
    /\ (Len(requests) >= 1 /\ Failed(1)) =>
          /\ pc = "done"
          /\ Bundle.errors = <<[type |-> requests[1].outcome, url |-> requests[1].url]>>
    /\ \A k \in InPhase("booking") :
          Len(ErrorNotes(booking_flow)) = (IF Failed(k) THEN 1 ELSE 0)

\* an internal link whose fetch failed is requested again as the booking candidate
C7_Witness ==
    /\ pc = "done"
    /\ \E j \in InPhase("links") : \E k \in InPhase("booking") :
          Failed(j) /\ requests[k].url = requests[j].url

(* C8: booking-flow discovery follows at most one candidate per crawl, the *)
(* first element of the candidate list, and exactly one when the list is   *)
(* not empty; when the list is empty no booking request is issued and      *)
(* final_url and final_domain stay unset.                                  *)

C8_FirstCandidateOnly ==
    /\ Cardinality(InPhase("booking")) <= 1
    /\ \A k \in InPhase("booking") :
          /\ booking_flow.candidates # <<>>
          /\ requests[k].url = booking_flow.candidates[1]
    /\ (pc = "done" /\ HomeFetched) =>
          /\ Bundle.booking_flow = <<booking_flow>>
          /\ (booking_flow.candidates # <<>>) <=> (InPhase("booking") # {})
    /\ booking_flow.candidates = <<>> =>
          booking_flow.final_url = <<>> /\ booking_flow.final_domain = <<>>

\* a list of several candidates, the first of which was followed
C8_Witness ==
    /\ pc = "done"
    /\ Len(booking_flow.candidates) >= 3
    /\ booking_flow.final_url = <<booking_flow.candidates[1]>>

(* C9: a failure while discovering or following the booking candidate      *)
(* never aborts the crawl: the crawl returns the aggregated bundle, whose  *)
(* pages are the pages fetched before and whose booking flow carries one   *)
(* booking_flow_error note.                                                *)

BookingFetchFailed == \E k \in InPhase("booking") : Failed(k)

C9_BookingFailureIsANote ==
    /\ BookingFetchFailed =>
          /\ pc = "done"
          /\ Aggregated
          /\ Bundle.pages = FetchedPages
          /\ ErrorNotes(Bundle.booking_flow[1]) =
                <<Note("booking_flow_error", <<>>, "Could not follow booking candidate.")>>
    /\ (pc = "done" /\ HomeFetched /\ ~site.parser_ok) =>
          /\ Aggregated
          /\ Bundle.pages = FetchedPages
          /\ ErrorNotes(Bundle.booking_flow[1]) =
                <<Note("booking_flow_error", <<>>, "Booking discovery failed.")>>

\* the candidate could not be followed after several pages were fetched
C9_Witness ==
    /\ BookingFetchFailed
    /\ Len(pages) >= 3

(* C10: the booking-flow candidate list is an ordered list without         *)
(* duplicates of at most MAX_CANDIDATES URLs, whatever the home page and   *)
(* the first fetched pages contribute.                                     *)

C10_CandidateList ==
    /\ NoDuplicates(booking_flow.candidates)
    /\ Len(booking_flow.candidates) <= MAX_CANDIDATES
    /\ Aggregated =>
          /\ NoDuplicates(Bundle.booking_flow[1].candidates)
          /\ Len(Bundle.booking_flow[1].candidates) <= MAX_CANDIDATES

\* a full list whose last candidates were merged in from inner pages
C10_Witness ==
    /\ Len(booking_flow.candidates) = MAX_CANDIDATES
    /\ booking_flow.candidates[MAX_CANDIDATES].path \in
          {"/offers-" \o ToString(i) : i \in 1..MAX_INTERNAL_LINKS}
             \cup {"/reserve-" \o ToString(i) : i \in 1..MAX_INTERNAL_LINKS}
    /\ \E i \in 1..Len(pages) : HtmlOf(pages[i]).elems # <<>> /\ i > 1

(* C11: when the followed booking candidate redirects through hops to a    *)
(* final URL, final_domain is the lower-cased host of the final URL, and   *)
(* the recorded redirect chain holds the URLs that redirected (the         *)
(* candidate, then the intermediate hops) in the order they were visited,  *)
(* at most MAX_REDIRECTS of them; the final URL is no entry of the chain   *)
(* and is recorded after it.  A candidate that does not redirect leaves no *)
(* chain.                                                                  *)

NoteIndex(ev, t) == {i \in 1..Len(ev) : ev[i].type = t}

C11_RedirectChain ==
    \A k \in InPhase("booking") :
        (pc = "done" /\ requests[k].outcome = "response") =>
            LET h == requests[k].hops
                cand == requests[k].url
                bf == Bundle.booking_flow[1]
                chains == NoteIndex(bf.evidence, "redirect_chain")
                finals == NoteIndex(bf.evidence, "booking_final_url")
            IN /\ Cardinality(finals) = 1
               /\ bf.final_domain = <<IF h > 0 THEN "live.engine.test" ELSE cand.host>>
               /\ h = 0 => chains = {} /\ bf.final_url = <<cand>>
               /\ h > 0 =>
                     /\ Cardinality(chains) = 1
                     /\ \A c \in chains :
                           LET chain == bf.evidence[c].value
                           IN /\ Len(chain) = Min(h, MAX_REDIRECTS)
                              /\ chain[1] = cand
                              /\ \A i \in 2..Len(chain) :
                                    chain[i] = Url("go.test", "/hop-" \o ToString(i - 1))
                              /\ bf.final_url[1] \notin Range(chain)
                              /\ \A f \in finals : c < f /\ bf.evidence[f].value = bf.final_url

\* a candidate was followed through more redirects than the chain may hold
C11_Witness ==
    /\ pc = "done"
    /\ \E k \in InPhase("booking") :
          /\ requests[k].outcome = "response"
          /\ requests[k].hops > MAX_REDIRECTS
          /\ Bundle.booking_flow[1].final_domain = <<"live.engine.test">>

----------------------------------------------------------------------------
(* C12: the cookie-key collection a crawl returns holds no key twice and   *)
(* at most MAX_COOKIE_KEYS keys, each of them a cookie key of one of the   *)
(* pages, for every number of pages of a crawl and every number of cookies *)
(* a page sets.                                                            *)

C12_CookieKeysBounded ==
    cookie_keys # <<>> =>
        /\ NoDuplicates(cookie_keys[1])
        /\ Len(cookie_keys[1]) <= MAX_COOKIE_KEYS
        /\ \A k \in Range(cookie_keys[1]) : \E i \in 1..Len(agg_pages) : k \in Range(agg_pages[i])

\* the pages share a cookie, and the loop left more keys than the bundle may hold
C12_Witness ==
    /\ cookie_keys # <<>>
    /\ Len(cookie_keys_union) > MAX_COOKIE_KEYS
    /\ Len(cookie_keys[1]) = MAX_COOKIE_KEYS
    /\ \A i \in 1..Len(agg_pages) : SharedCookie \in Range(agg_pages[i])

----------------------------------------------------------------------------
(* Reading the calls of detect_tools_from_signals.                         *)

\* detect has just returned: every call is the last call in such a state
JustCalled ==
    \/ Len(calls) = 1 /\ apc = Injections[1].at
    \/ Len(calls) = 2 /\ apc = "render"
LastCall == calls[Len(calls)]

\* the weights of the patterns of a product that count and are found
MatchingWeights(product, sig) ==
    {product.patterns[i].weight : i \in {j \in 1..Len(product.patterns) :
        ~Skipped(product.patterns[j]) /\ Matches(product.patterns[j], sig)}}

MaxOf(S) == IF S = {} THEN 0 ELSE CHOOSE m \in S : \A x \in S : x <= m

\* the confidence of a rule in a call: the greatest weight found, 0 when none
Confidence(product, sig) == MaxOf(MatchingWeights(product, sig))

\* the products of a call that have a positive confidence, in file order
Emitting(c) == SelectSeq(c.rules, LAMBDA r : Confidence(r, c.signals) > 0)

CataloguePatterns ==
    UNION {Range(RuleCatalogue[i].patterns) : i \in 1..Len(RuleCatalogue)}

(* C13: the confidence detect computes for a rule is the greatest weight   *)
(* among the rule's patterns that match, never their sum (the Detection    *)
(* stores it rounded to two decimals); a further matching pattern whose    *)
(* weight is not above that maximum, put before or after the rule's        *)
(* patterns, leaves the rule's confidence unchanged.                       *)

C13_MaxNotSum ==
    JustCalled =>
        LET c == LastCall
            em == Emitting(c)
        IN /\ Len(c.detections) = Len(em)
           /\ \A n \in 1..Len(em) :
                 LET m == Confidence(em[n], c.signals)
                 IN /\ c.detections[n].vendor = em[n].vendor[1]
                    /\ c.detections[n].confidence \in (m - 5)..(m + 5)
                    /\ c.detections[n].confidence % 10 = 0
           /\ \A r \in Range(c.rules) :
                 /\ RuleBest(r, c.signals) = Confidence(r, c.signals)
                 /\ \A p \in CataloguePatterns :
                       (~Skipped(p) /\ Matches(p, c.signals)
                          /\ p.weight <= RuleBest(r, c.signals)) =>
                            /\ RuleBest([r EXCEPT !.patterns = Append(@, p)], c.signals)
                                 = RuleBest(r, c.signals)
                            /\ RuleBest([r EXCEPT !.patterns = <<p>> \o @], c.signals)
                                 = RuleBest(r, c.signals)

\* a rule with two matching patterns of different weights was emitted
C13_Witness ==
    \E k \in 1..Len(calls) : \E n \in 1..Len(calls[k].detections) :
        /\ Cardinality(MatchingWeights(Emitting(calls[k])[n], calls[k].signals)) >= 2
        /\ calls[k].detections[n].confidence = Confidence(Emitting(calls[k])[n], calls[k].signals)

(* C14: label thresholds: a Detection with confidence 0.85 or more is     *)
(* labelled "confirmed", one with confidence in [0.55, 0.85) "probable",   *)
(* one with confidence in (0, 0.55) "possible", and a rule whose           *)
(* confidence is 0 yields no Detection.  Stated here as the claim reads,   *)
(* on the confidence the Detection holds; detect labels the matched weight *)
(* and stores it rounded.                                                  *)

C14_LabelMatchesConfidence ==
    \A k \in 1..Len(calls) :
        /\ \A n \in 1..Len(calls[k].detections) :
              LET d == calls[k].detections[n]
              IN /\ d.confidence >= 850 => d.label = "confirmed"
                 /\ (d.confidence >= 550 /\ d.confidence < 850) => d.label = "probable"
                 /\ (d.confidence > 0 /\ d.confidence < 550) => d.label = "possible"
        /\ \A r \in Range(calls[k].rules) :
              Confidence(r, calls[k].signals) = 0 =>
                 \A n \in 1..Len(calls[k].detections) : calls[k].detections[n].vendor # r.vendor[1]

\* the thresholds as they hold: on the matched weight, before it is rounded
LabelsFollowMatchedWeight ==
    \A k \in 1..Len(calls) :
        LET c == calls[k]
            em == Emitting(c)
        IN /\ Len(c.detections) = Len(em)
           /\ \A n \in 1..Len(em) :
                 LET m == Confidence(em[n], c.signals)
                 IN /\ c.detections[n].vendor = em[n].vendor[1]
                    /\ m >= 850 => c.detections[n].label = "confirmed"
                    /\ (m >= 550 /\ m < 850) => c.detections[n].label = "probable"
                    /\ (m > 0 /\ m < 550) => c.detections[n].label = "possible"
           /\ \A r \in Range(c.rules) :
                 Confidence(r, c.signals) = 0 =>
                    \A n \in 1..Len(c.detections) : c.detections[n].vendor # r.vendor[1]

(* C15: the confidence of every Detection, whether detect emitted it or    *)
(* inject_confirmed_system added it, lies in [0, 1], whatever weights the  *)
(* rule set holds.  Stated here as the claim reads; detect stores the      *)
(* matched weight without an upper clamp.                                  *)

C15_ConfidenceClamped ==
    /\ \A k \in 1..Len(calls) : \A n \in 1..Len(calls[k].detections) :
          calls[k].detections[n].confidence \in 0..1000
    /\ \A n \in 1..Len(detections) : detections[n].confidence \in 0..1000

(* C16: the layer-evidence map has exactly the 7 canonical layers as keys, *)
(* empty layers included: in the result of every call of detect, and in    *)
(* analyze after each of its inject_confirmed_system calls.                *)

C16_SevenLayers ==
    /\ Cardinality(Layers) = 7
    /\ \A k \in 1..Len(calls) : DOMAIN calls[k].by_layer = Layers
    /\ calls # <<>> => DOMAIN by_layer = Layers
    /\ analysis # <<>> => DOMAIN analysis[1].layers = Layers

\* all four injections are done, the PMS was confirmed, and a layer is empty
C16_Witness ==
    /\ apc = "build"
    /\ Truthy(req.pms_vendor)
    /\ by_layer["Core Systems"] # <<>>
    /\ \E l \in Layers : by_layer[l] = <<>>

(* C17: every Detection detect emits is filed under exactly one of the 7   *)
(* canonical layers, the one the category lookup gives; a category that is *)
(* missing, empty, blank or not in the lookup goes to Commercial           *)
(* Execution.                                                              *)

\* where the lookup sends the categories of the model ("Unknown" is what detect
\* stores for a missing or empty category)
ExpectedRoute ==
    [c \in {"rms", "PMS "} |-> "Core Systems"]
    @@ [c \in {"Distribution"} |-> "Distribution"]
    @@ [c \in {"analytics", "Unknown", "  ", "spa", "guest data & crm"} |-> "Commercial Execution"]

Count(seq, x) == Cardinality({i \in 1..Len(seq) : seq[i] = x})

C17_OneCanonicalLayer ==
    \A k \in 1..Len(calls) :
        LET c == calls[k]
        IN /\ DOMAIN c.by_layer \subseteq Layers
           /\ \A n \in 1..Len(c.detections) :
                 LET d == c.detections[n]
                 IN /\ ExpectedRoute[d.category] \in Layers
                    /\ \A l \in Layers :
                          Count(c.by_layer[l], d) = IF l = ExpectedRoute[d.category] THEN 1 ELSE 0
           /\ \A l \in Layers : Range(c.by_layer[l]) \subseteq Range(c.detections)

\* one call emitted detections of a mapped category written with a capital and
\* a blank, of a canonical layer name, and of a missing, a blank and an
\* unmapped category
C17_Witness ==
    \E k \in 1..Len(calls) :
        {"PMS ", "Distribution", "Unknown", "  ", "guest data & crm"}
            \subseteq {calls[k].detections[n].category : n \in 1..Len(calls[k].detections)}

----------------------------------------------------------------------------
(* Reading the injections of analyze.                                      *)

\* the calls of inject_confirmed_system that have returned
InjectionsDone ==
    IF calls = <<>> \/ apc = "detect" THEN 0
    ELSE IF \E k \in 1..Len(Injections) : apc = Injections[k].at
      THEN (CHOOSE k \in 1..Len(Injections) : apc = Injections[k].at) - 1
      ELSE Len(Injections)

\* those of them that were given a vendor name, in call order
SuppliedSoFar ==
    SelectSeq([k \in 1..InjectionsDone |-> Injections[k]], LAMBDA i : Truthy(req[i.field]))

\* the Detection the claim describes for a confirmed vendor, of confidence conf
ConfirmedDetection(i, conf) ==
    [vendor |-> req[i.field][1], product |-> i.product, category |-> i.category,
     confidence |-> conf, label |-> "confirmed", source |-> "customer_confirmed"]

\* detections and by_layer are what detect returned plus, in call order, one
\* Detection of confidence conf per vendor name supplied, in the flat list and
\* in its target layer, and nothing else
InjectedWith(conf) ==
    LET added == [n \in 1..Len(SuppliedSoFar) |-> ConfirmedDetection(SuppliedSoFar[n], conf)]
        addedTo(l) ==
            LET sel == SelectSeq(SuppliedSoFar, LAMBDA i : i.layer = l)
            IN [n \in 1..Len(sel) |-> ConfirmedDetection(sel[n], conf)]
    IN /\ detections = calls[1].detections \o added
       /\ \A l \in Layers : by_layer[l] = calls[1].by_layer[l] \o addedTo(l)

(* C18: an operator-confirmed vendor name is injected as a Detection with  *)
(* confidence 1.0, label "confirmed" and source customer_confirmed, added  *)
(* to the flat detections list and to its target layer; without a vendor   *)
(* name nothing is added.  Stated here as the claim reads; the code        *)
(* injects the Detection with confidence 0.99.                             *)

C18_InjectedWithFullConfidence ==
    (calls # <<>> /\ apc # "detect") => InjectedWith(1000)

(* C19: when the operator supplies a PMS vendor name, the analysis that    *)
(* analyze returns holds a customer-confirmed Detection for it in the Core *)
(* Systems layer, whatever the crawl returned.  Stated here as the claim   *)
(* reads; a crawl without pages is answered by the fallback response,      *)
(* which carries no Detection.                                             *)

C19_ConfirmedPmsAlwaysReported ==
    (apc = "returned" /\ Truthy(req.pms_vendor)) =>
        \E n \in 1..Len(analysis[1].layers["Core Systems"].detections) :
            LET d == analysis[1].layers["Core Systems"].detections[n]
            IN d.vendor = req.pms_vendor[1] /\ d.source = "customer_confirmed"

(* C20: detect is pure: two calls of detect_tools_from_signals with the    *)
(* same signals and the same rule set return the same detections in the    *)
(* same order and the same layer evidence, whatever analyze did to the     *)
(* lists of the first call in between; and the calls leave the rule set    *)
(* and the signals as they were.                                           *)

C20_DetectIsPure ==
    /\ \A j, k \in 1..Len(calls) :
          (calls[j].signals = calls[k].signals /\ calls[j].rules = calls[k].rules) =>
              /\ calls[j].detections = calls[k].detections
              /\ calls[j].by_layer = calls[k].by_layer
    /\ \A k \in 1..Len(calls) : calls[k].rules = rules
    /\ calls # <<>> => calls[1].signals = signals[1]

\* the competitor's crawl returned the same signals as the primary one: detect
\* ran twice on them and emitted, and analyze injected in between
C20_Witness ==
    /\ Len(calls) = 2
    /\ calls[1].signals = calls[2].signals
    /\ calls[2].detections # <<>>
    /\ detections # calls[1].detections

(* C21: the Duetto scenario.  With the asset domains {"duetto.com"} and a  *)
(* rule set holding the single rule vendor Duetto, category rms, one       *)
(* domain_contains pattern "duetto.com" of weight 0.9, detect emits        *)
(* exactly one Detection, of vendor Duetto and confidence 0.9, filed under *)
(* Core Systems and under no other layer.  The claim gives it the label    *)
(* "probable"; 0.9 is not below 0.85 and label() gives "confirmed".        *)

\* the calls of detect with the scenario's rule set and asset domains
ScenarioCalls ==
    {k \in 1..Len(calls) :
        /\ calls[k].rules = <<RuleCatalogue[1]>>
        /\ calls[k].signals.asset_domains = {<<"duetto", "com">>}}

ScenarioResult(lbl) ==
    \A k \in ScenarioCalls :
        LET c == calls[k]
        IN /\ Len(c.detections) = 1
           /\ c.detections[1].vendor = "Duetto"
           /\ c.detections[1].category = "rms"
           /\ c.detections[1].confidence = 900
           /\ c.detections[1].label = lbl
           /\ c.by_layer["Core Systems"] = c.detections
           /\ \A l \in Layers \ {"Core Systems"} : c.by_layer[l] = <<>>

\* the claim as it reads
C21_DuettoProbable == ScenarioResult("probable")

\* the claim with the label the thresholds give
C21_DuettoConfirmed == ScenarioResult("confirmed")

\* detect was called on the scenario
C21_Witness ==
    \E k \in ScenarioCalls : calls[k].detections # <<>>

(* C26: in every Detection detect emits, the label is the one the label    *)
(* thresholds (0.85 and 0.55) give for the confidence stored in that same  *)
(* Detection, and the stored confidence is above 0.  Stated as the claim   *)
(* reads; detect stores round(best, 2) and labels, and decides to emit, on *)
(* the unrounded best.                                                     *)

C26_LabelAgreesWithStored ==
    \A k \in 1..Len(calls) : \A n \in 1..Len(calls[k].detections) :
        LET d == calls[k].detections[n]
        IN /\ d.label = label(d.confidence)
           /\ d.confidence > 0

(* C22: analyze never throws: for every request and every failure of the   *)
(* crawl, detection, scoring, the opportunity model, the competitor scan   *)
(* or the report rendering it returns a response that holds an analysis    *)
(* object and a report string.  Stated as the claim reads; lines 952-953    *)
(* normalise the request's URLs before the try block is entered.           *)

C22_NeverThrows ==
    /\ apc # "raised"
    /\ apc = "returned" => (analysis # <<>> /\ report_md # <<>>)

\* what holds of the code: once inside the try block, analyze returns a
\* response with both parts whatever stage raises
ReturnsFromTry ==
    /\ apc = "returned" => (analysis # <<>> /\ report_md # <<>>)
    /\ apc = "raised" =>
          \/ UrlparseRaises(req.url)
          \/ Truthy(req.competitor_url) /\ UrlparseRaises(req.competitor_url[1])

(* C24: in every score result analyze obtains from score_layers, for the   *)
(* primary site and for the competitor, each of the 7 layers has an entry, *)
(* and a layer without detections has the fixed baseline score, which is   *)
(* not zero, and the state inferred-baseline.                              *)

BaselineWhereEmpty(sc, bl) ==
    sc.layer_scores # <<>> =>
        /\ {sc.layer_scores[i].layer : i \in 1..Len(sc.layer_scores)} = Layers
        /\ \A i \in 1..Len(sc.layer_scores) :
              bl[sc.layer_scores[i].layer] = <<>> =>
                 /\ sc.layer_scores[i].score = BASELINE
                 /\ sc.layer_scores[i].state = "inferred_baseline"

C24_EmptyLayerAtBaseline ==
    /\ BASELINE > 0
    /\ scores # <<>> => BaselineWhereEmpty(scores[1], by_layer)
    /\ (analysis # <<>> /\ analysis[1].error = <<>>) =>
          /\ BaselineWhereEmpty(analysis[1].scores,
                                [l \in Layers |-> analysis[1].layers[l].detections])
          /\ analysis[1].competitor # <<>> =>
                BaselineWhereEmpty(analysis[1].competitor[1].scores,
                                   [l \in Layers |-> analysis[1].competitor[1].layers[l].detections])

\* the returned analysis scores a layer without detections at the baseline and
\* a layer with detections above it
C24_Witness ==
    /\ apc = "returned"
    /\ analysis[1].error = <<>>
    /\ \E i, j \in 1..Len(analysis[1].scores.layer_scores) :
          LET ls == analysis[1].scores.layer_scores
          IN /\ analysis[1].layers[ls[i].layer].detections = <<>>
             /\ ls[i].score = BASELINE
             /\ analysis[1].layers[ls[j].layer].detections # <<>>
             /\ ls[j].score > BASELINE

(* C29: a failure in the competitor scan leaves the primary analysis as it *)
(* was built: the response keeps the primary url, detections, scores,      *)
(* layers and evidence, gains only a comparison entry marked               *)
(* competitor_scan_failed, and holds no competitor entry.  The claim reads *)
(* this for a failure of the crawl, the detection, the layer summary, the  *)
(* benchmark lookup or the comparison.                                     *)

\* the competitor scan has just ended
ScanEnded == apc = "render" /\ Truthy(req.competitor_url)

\* the primary analysis with nothing but a comparison entry of that marker
OnlyMarked(marker) ==
    analysis[1] = [Analysis EXCEPT !.comparison = <<[error |-> <<marker>>]>>]

\* the claim as it reads
C29_AnyFailureMarksScanFailed ==
    (ScanEnded /\ ({"competitor_scan", "compute_comparison"} \cap failing # {})) =>
        OnlyMarked("competitor_scan_failed")

\* what holds: a failure before the competitor's result is stored is as the
\* claim says; a failure inside compute_comparison is caught there, and the
\* response then keeps the competitor entry next to a comparison entry marked
\* comparison_failed; the primary fields are unchanged in both cases
C29_ScanFailureIsolated ==
    ScanEnded =>
        /\ "competitor_scan" \in failing => OnlyMarked("competitor_scan_failed")
        /\ "competitor_scan" \notin failing =>
              /\ [analysis[1] EXCEPT !.competitor = <<>>, !.comparison = <<>>] = Analysis
              /\ analysis[1].competitor # <<>>
              /\ "compute_comparison" \in failing =>
                    analysis[1].comparison = <<[error |-> <<"comparison_failed">>]>>

\* the competitor scan of an analysis with detections has failed
C29_Witness ==
    /\ ScanEnded
    /\ "competitor_scan" \in failing
    /\ analysis[1].detections # <<>>
    /\ analysis[1].comparison # <<>>

(* C27: one crawl issues at most 18 GET requests: 1 for the home page, at  *)
(* most 2 for the well-known paths, at most MAX_INTERNAL_LINKS = 14 for    *)
(* internal links and at most 1 for the booking candidate, whatever subset *)
(* of them fails; only answered page fetches become pages.  A request is   *)
(* one client.get call of the crawl; the redirects httpx follows inside a  *)
(* call belong to that request.                                            *)

C27_AtMost18Gets ==
    /\ Len(requests) <= 18
    /\ Cardinality(InPhase("home")) <= 1
    /\ Cardinality(InPhase("wellknown")) <= 2
    /\ Cardinality(InPhase("links")) <= MAX_INTERNAL_LINKS
    /\ Cardinality(InPhase("booking")) <= 1
    /\ Len(pages) = Len(FetchedPages)

\* a crawl issued 18 requests, more than the pages it kept, and a fetch failed
C27_Witness ==
    /\ pc = "done"
    /\ Len(requests) = 18
    /\ Len(requests) > Len(pages)
    /\ \E k \in 1..Len(requests) : Failed(k)

----------------------------------------------------------------------------
\* the crawl of one task alone in the process, given the replies rs[1..k]
RECURSIVE Replay(_, _)
Replay(rs, k) == IF k = 0 THEN StartConf ELSE StepConf(Replay(rs, k - 1), rs[k])

Alone(t) == Replay(tasks[t].replies, Len(tasks[t].replies))

\* C23: independent analyses share no mutable state.  Whatever the order in
\* which the event loop runs two crawls and their detections, each task holds
\* the position, the pages, the errors and the signals bundle that its crawl
\* holds when it runs alone and the network gives it the same replies, and
\* its detections are those of that bundle.
C23_TasksIndependent ==
    \A t \in PairTasks :
        tasks[t].conf.pc # "init" =>
            LET alone == Alone(t)
            IN /\ tasks[t].conf.pc = alone.pc
               /\ tasks[t].conf.L.pages = alone.L.pages
               /\ tasks[t].conf.L.errors = alone.L.errors
               /\ tasks[t].conf.result = alone.result
               /\ tasks[t].detected # <<>> =>
                     tasks[t].detected[1] = detect_tools_from_signals(SignalsOf(alone.result[1]))

\* both crawls are suspended in mid-flight after different replies: the first
\* has recorded an error and the second has not, and the second has returned
\* nothing yet while the first is past its home page
C23_Witness ==
    /\ tasks[1].conf.pc \in Awaiting /\ tasks[2].conf.pc \in Awaiting
    /\ Len(tasks[1].replies) >= 2 /\ Len(tasks[2].replies) >= 2
    /\ tasks[1].conf.L.errors # <<>>
    /\ tasks[2].conf.L.errors = <<>>
    /\ tasks[1].conf.L.pages # tasks[2].conf.L.pages

\* one task has finished with a detection drawn from its booking redirect
\* while the other, answered differently, finished with none
C23_WitnessDetections ==
    /\ tasks[1].detected # <<>> /\ tasks[2].detected # <<>>
    /\ \E d \in Range(tasks[1].detected[1].detections) : d.confidence = 900
    /\ tasks[2].detected[1].detections = <<>>

----------------------------------------------------------------------------
Eligible(g) == g.trigger \in AllowedTriggers
KnownGap(g) == g.gap_name \in {BI_GAP, INTEGRATION_GAP, RMS_GAP}

\* C25: build_recommendations recommends only for a gap whose trigger is
\* system_missing, integration_not_active or process_gap_confirmed.  The gap
\* names of the returned recommendations are, in order, the names of the
\* gaps of the register that have such a trigger (and a name the function
\* knows): each recommendation carries the name of such a gap, a gap with
\* another trigger or without one yields none, and the order is the gaps'.
C25_OnlyAllowedTriggers ==
    recommendations # <<>> =>
        LET gaps == gap_register[1].gaps
            recs == recommendations[1]
            from == SelectSeq(gaps, LAMBDA g : Eligible(g) /\ KnownGap(g))
        IN /\ Len(recs) = Len(from)
           /\ \A k \in 1..Len(recs) : recs[k].gap_name = from[k].gap_name
           /\ (\A i \in 1..Len(gaps) : ~Eligible(gaps[i])) => recs = <<>>

\* a register of two known gaps, the first with a trigger that is not
\* allowed, the second with an allowed one: one recommendation, for the second
C25_Witness ==
    /\ recommendations # <<>>
    /\ Len(gap_register[1].gaps) = 2
    /\ gap_register[1].gaps[1] = Gap(BI_GAP, <<"inferred_from_public_signal">>)
    /\ gap_register[1].gaps[2] = Gap(RMS_GAP, <<"integration_not_active">>)
    /\ Len(recommendations[1]) = 1
    /\ recommendations[1][1].gap_name = RMS_GAP

----------------------------------------------------------------------------
HasGap(name) == \E i \in 1..Len(gap_register[1].gaps) : gap_register[1].gaps[i].gap_name = name

\* the register and the grades were both made from the rows of the intake
BothMade ==
    /\ grades # <<>>
    /\ gap_register # <<>>
    /\ gap_register[1].by = "build_gap_register"

\* the unknown count compute_grades quotes in the reasons of decision_support
CountedUnknown == grades[1][1].reasons[1]

\* C28: for every list of integration rows, build_gap_register creates the
\* gap "Integration status not confirmed" exactly when compute_grades counts
\* at least one integration as unknown; and for every list of stack rows the
\* gap "No central reporting view" exists exactly when compute_grades applies
\* the missing-BI penalty.
C28_ModulesAgree ==
    BothMade =>
        /\ HasGap(INTEGRATION_GAP) <=> CountedUnknown >= 1
        /\ HasGap(BI_GAP) <=>
              dimension_scores(stack_rows, integration_rows)[1]
                 = 100 - UnknownPenalty(CountedUnknown, Max2(1, Len(integration_rows)), 60) - 20

\* the half of C28 about the stack rows, and the direction of the other half
\* that the code keeps: a gap about the integrations is never created unless
\* compute_grades counts an unknown integration
CategoryPresenceAgrees ==
    BothMade =>
        /\ HasGap(INTEGRATION_GAP) => CountedUnknown >= 1
        /\ HasGap(BI_GAP) <=> ~has_category(stack_rows, "reporting_bi")
        /\ HasGap(BI_GAP) <=>
              dimension_scores(stack_rows, integration_rows)[1]
                 = 100 - UnknownPenalty(CountedUnknown, Max2(1, Len(integration_rows)), 60) - 20
        /\ HasGap(RMS_GAP) <=> ~has_category(stack_rows, "rms")

----------------------------------------------------------------------------
Rank(g) == CASE g = "A" -> 5 [] g = "B" -> 4 [] g = "C" -> 3 [] g = "D" -> 2 [] g = "E" -> 1

InBand(g, score) ==
    CASE g = "A" -> score >= 81
      [] g = "B" -> score >= 61 /\ score <= 80
      [] g = "C" -> score >= 41 /\ score <= 60
      [] g = "D" -> score >= 21 /\ score <= 40
      [] g = "E" -> score <= 20
      [] OTHER -> FALSE

CountsAsUnknown(row) == row.status \notin {<<"active_confirmed">>, <<"not_active_confirmed">>}

\* C30: compute_grades is monotone in integration certainty.  One more
\* integration row whose status counts as unknown improves the grade of none
\* of the five dimensions, one more active_confirmed row worsens none, and
\* every grade is the letter of the band (81, 61, 41, 21) its score lies in.
C30_MonotoneInCertainty ==
    /\ grades # <<>> =>
          /\ Len(grades[1]) = 5
          /\ \A i \in 1..5 :
                InBand(grades[1][i].grade, dimension_scores(stack_rows, integration_rows)[i])
    /\ added_row # <<>> =>
          /\ CountsAsUnknown(added_row[1]) =>
                \A i \in 1..5 : Rank(grades[1][i].grade) <= Rank(grades_before[1][i].grade)
          /\ added_row[1].status = <<"active_confirmed">> =>
                \A i \in 1..5 : Rank(grades[1][i].grade) >= Rank(grades_before[1][i].grade)

\* an unknown row was added to confirmed-active rows and three grades fell
C30_Witness ==
    /\ added_row # <<>> /\ CountsAsUnknown(added_row[1])
    /\ Len(integration_rows) >= 2
    /\ Cardinality({i \in 1..5 : Rank(grades[1][i].grade) < Rank(grades_before[1][i].grade)}) >= 2

\* an active_confirmed row was added to unknown rows and a grade rose
C30_WitnessActive ==
    /\ added_row # <<>> /\ added_row[1].status = <<"active_confirmed">>
    /\ \E i \in 1..5 : Rank(grades[1][i].grade) > Rank(grades_before[1][i].grade)
====
